---------------------------- MODULE Spec2Model ----------------------------
(***************************************************************************)
(* basketry/typescript-validators.                                         *)
(*                                                                         *)
(* The repository generates TypeScript text: validators, type guards,      *)
(* sanitizers and a validated-service wrapper.  The model has two layers:  *)
(*   - the generators, as operators from the IR (types, members, rules,    *)
(*     methods) to an abstract syntax of the text they emit;               *)
(*   - the run-time meaning of the emitted text over JavaScript values     *)
(*     (undefined, null, strings, numbers, booleans, Dates, arrays,        *)
(*     objects), where reading a property of undefined or null throws.     *)
(***************************************************************************)
EXTENDS Integers, Sequences, FiniteSets, TLC

VARIABLES
    pc,         \* position of the run in progress
    gen,        \* which generation of the validator emitter produced the text
    srev,       \* which revision of the sanitizer emitter produced the text
    subject,    \* the IR entity under test (a Type, an Enum, a Union or a Method)
    input,      \* the JavaScript value handed to the generated function
    parent,     \* the parentPath argument (undefined or a string)
    vres,       \* what the generated validator did: returned errors or threw
    gres,       \* what the generated type guard did
    sres,       \* what the generated sanitizer did (first application)
    sres2,      \* what the generated sanitizer did applied to its own result
    w,          \* the state of one call of a validated-service wrapper method
    build       \* the state of a generator at build time (no run has started yet)

vars == <<pc, gen, srev, subject, input, parent, vres, gres, sres, sres2, w, build>>

\* what a run is set up with and never changes: the text was built before the run
setup == <<gen, srev, subject, input, parent, build>>

-----------------------------------------------------------------------------
(* JavaScript values *)

Undef   == [k |-> "undefined"]
Null    == [k |-> "null"]
Str(s)  == [k |-> "string", s |-> s]
Num(n)  == [k |-> "number", n |-> n, half |-> FALSE]
\* n + 1/2: a number with a fractional part
Frac(n) == [k |-> "number", n |-> n, half |-> TRUE]
Bool(b) == [k |-> "boolean", b |-> b]
DateV   == [k |-> "date"]
Arr(e)  == [k |-> "array", e |-> e]
Obj(f)  == [k |-> "object", o |-> f]

\* typeof v
TypeOf(v) ==
    CASE v.k = "undefined" -> "undefined"
      [] v.k \in {"null", "date", "array", "object"} -> "object"
      [] OTHER -> v.k

IsObj(v) == v.k = "object"
IsArr(v) == v.k = "array"

\* v.name cannot be evaluated: v is undefined or null (a TypeError)
GetThrows(v) == v.k \in {"undefined", "null"}

\* v.name for a v other than undefined and null
Get(v, name) ==
    IF IsObj(v) /\ name \in DOMAIN v.o THEN v.o[name] ELSE Undef

\* the JavaScript truthiness of a string-or-undefined value
Truthy(v) ==
    CASE v.k = "string" -> v.s # ""
      [] v.k \in {"undefined", "null"} -> FALSE
      [] v.k = "boolean" -> v.b
      [] v.k = "number" -> v.n # 0 \/ v.half
      [] OTHER -> TRUE

Digit(d) == <<"0", "1", "2", "3", "4", "5", "6", "7", "8", "9">>[d + 1]

RECURSIVE ToStr(_)
\* `${n}` for a natural number n
ToStr(n) == IF n < 10 THEN Digit(n) ELSE ToStr(n \div 10) \o Digit(n % 10)

-----------------------------------------------------------------------------
(* What a generated function does: it returns a value or it throws *)

Thrown   == [thrown |-> TRUE]
Ret(x)   == [thrown |-> FALSE, val |-> x]

\* errors.push(...a); errors.push(...b) where a and b are validator outcomes
Both(a, b) ==
    IF a.thrown \/ b.thrown THEN Thrown ELSE Ret(a.val \o b.val)

Err(code, title, path) == [code |-> code, title |-> title, path |-> path]

-----------------------------------------------------------------------------
(* JavaScript operations the emitted text uses *)

NaN == [k |-> "number", n |-> 0, half |-> FALSE, nan |-> TRUE]
IsNaN(v) == v.k = "number" /\ "nan" \in DOMAIN v

\* v % 1 !== 0 for a number v
HasFraction(v) == v.half \/ IsNaN(v)
\* v % f !== 0 for a number v and a positive integer f
NotMultiple(v, f) == v.half \/ IsNaN(v) \/ v.n % f # 0
\* v <= c, v < c, v >= c, v > c for a number v and an integer c
NumLe(v, c) == ~IsNaN(v) /\ IF v.half THEN v.n < c ELSE v.n <= c
NumLt(v, c) == ~IsNaN(v) /\ v.n < c
NumGe(v, c) == ~IsNaN(v) /\ v.n >= c
NumGt(v, c) == ~IsNaN(v) /\ IF v.half THEN v.n >= c ELSE v.n > c

\* Set.prototype.has compares primitives by value and objects by identity; the
\* objects of one array are distinct objects
SameValueZero(a, b) ==
    a.k \in {"undefined", "null", "string", "number", "boolean"} /\ a = b

RECURSIVE Rep(_)
\* the string of n letters a
Rep(n) == IF n = 0 THEN "" ELSE Rep(n - 1) \o "a"

\* regex.test(s) for the patterns of the IR
RegexTest(re, s) ==
    CASE re = "^a+$" -> Len(s) >= 1 /\ s = Rep(Len(s))
      [] re = "^$" -> s = ""
      [] OTHER -> FALSE

-----------------------------------------------------------------------------
(* The IR (basketry): members, rules *)

\* isRequired(member): the member carries the rule "required"
isRequired(m) == \E i \in 1..Len(m.rules) : m.rules[i].id = "required"

\* `case`: pascal(name) drops the separators and upper-cases the letter after
\* each border; camel(name) is pascal(name) with its first letter lower-cased
Lowers == "abcdefghijklmnopqrstuvwxyz"
Uppers == "ABCDEFGHIJKLMNOPQRSTUVWXYZ"

\* the letters of the text from, each mapped to the letter at its place in the text to
Recasing(from, to) ==
    [c \in {SubSeq(from, i, i) : i \in 1..Len(from)} |->
        LET i == CHOOSE i \in 1..Len(from) : SubSeq(from, i, i) = c IN SubSeq(to, i, i)]

toUpperCase == Recasing(Lowers, Uppers)
toLowerCase == Recasing(Uppers, Lowers)

\* c with its case changed as the table says; other characters stay
Recase(c, table) == IF c \in DOMAIN table THEN table[c] ELSE c

RECURSIVE PascalFrom(_, _)
PascalFrom(text, border) ==
    IF Len(text) = 0 THEN ""
    ELSE LET c == SubSeq(text, 1, 1)
         IN  IF c \in {"_", "-", " ", "."}
             THEN PascalFrom(Tail(text), TRUE)
             ELSE (IF border THEN Recase(c, toUpperCase) ELSE c) \o PascalFrom(Tail(text), FALSE)

pascal(name) == PascalFrom(name, TRUE)

\* text with its first letter lower-cased
Decap(text) ==
    IF Len(text) = 0 THEN "" ELSE Recase(SubSeq(text, 1, 1), toLowerCase) \o Tail(text)

camel(name) == Decap(pascal(name))

\* a.localeCompare(b) < 0 for the member names of the IR
Collation ==
    <<"a", "alpha", "b", "beta", "body", "c", "id", "kind", "kids", "leaf", "leaves", "m", "max-len",
      "n", "node", "opts", "pick", "x", "z">>
LocaleRank(name) == CHOOSE i \in 1..Len(Collation) : Collation[i] = name
LocaleLess(a, b) == LocaleRank(a) < LocaleRank(b)

RECURSIVE Insert(_, _)
Insert(sorted, m) ==
    IF sorted = <<>> THEN <<m>>
    ELSE IF LocaleLess(m.name, Head(sorted).name) THEN <<m>> \o sorted
    ELSE <<Head(sorted)>> \o Insert(Tail(sorted), m)

RECURSIVE SortByName(_)
\* arr.sort((a, b) => a.name.value.localeCompare(b.name.value)): stable
SortByName(ms) ==
    IF ms = <<>> THEN <<>>
    ELSE Insert(SortByName(SubSeq(ms, 1, Len(ms) - 1)), ms[Len(ms)])

-----------------------------------------------------------------------------
(* name-factory.ts *)

\* a name that leaves the Type out
buildTypeValidatorNameOfNone(typeName) == camel("validate_")
\* buildTypeValidatorName(member or type): camel(`validate_${buildTypeName(x)}`)
buildTypeValidatorName(typeName) == camel("validate_" \o pascal(typeName))
\* buildTypeGuardName(type): camel(`is_${type.name.value}`)
buildTypeGuardName(typeName) == camel("is_" \o typeName)
\* buildParamsValidatorName(method): camel(`validate_${method.name.value}_params`)
buildParamsValidatorName(methodName) == camel("validate_" \o methodName \o "_params")
\* buildEnumValidatorName(e): camel(`validate_${e.name.value}`)
buildEnumValidatorName(enumName) == camel("validate_" \o enumName)
\* SanitizerFactory: camel(`sanitize_${type.name.value}`), also for a Union
buildSanitizerName(typeName) == camel("sanitize_" \o typeName)
\* SanitizerFactory: camel(`sanitize_${method.name.value}_params`)
buildParamsSanitizerName(methodName) == camel("sanitize_" \o methodName \o "_params")
\* buildMemberName(member): buildPropertyName or buildParameterName, both camel
buildMemberName(m) == camel(m.name)

-----------------------------------------------------------------------------
(* MemberValidatorFactory: the text emitted for the members of one validator, *)
(* as a sequence of statements                                                *)
(*   validator.required|optional(params.<accessor>, '<path>').ensure(<calls>) *)
(* where a call is a helper (string, maxLength(2), array(...), using(f)).     *)

Call(h) == [h |-> h]
CallN(h, arg) == [h |-> h, arg |-> arg]

\* the concatenation of the sequences of seqs, in order
Flatten(seqs) ==
    LET cat[i \in 0..Len(seqs)] == IF i = 0 THEN <<>> ELSE cat[i - 1] \o seqs[i]
    IN  cat[Len(seqs)]

\* buildArrayMaxItemsValiation, buildArrayMinItemsValiation,
\* buildArrayUniqueItemsValiation for one rule
ArrayRuleCalls(rule) ==
    CASE rule.id = "array-max-items" -> <<CallN("maxItems", rule.max)>>
      [] rule.id = "array-min-items" -> <<CallN("minItems", rule.min)>>
      [] rule.id = "array-unique-items" -> <<Call("uniqueItems")>>
      [] OTHER -> <<>>

\* buildStringTypeValidation .. buildDateTypeValidation
TypeCalls(m) ==
    CASE m.typeName = "string" -> <<Call("string")>>
      [] m.typeName \in {"number", "float", "double"} -> <<Call("number")>>
      [] m.typeName \in {"integer", "long"} -> <<Call("integer")>>
      [] m.typeName = "boolean" -> <<Call("boolean")>>
      [] m.typeName \in {"date", "date-time"} -> <<Call("date")>>
      [] OTHER -> <<>>

\* buildStringMaxLengthValidation .. buildNumberLessOrEqualValidation for one rule
ValueRuleCalls(rule) ==
    CASE rule.id = "string-max-length" -> <<CallN("maxLength", rule.length)>>
      [] rule.id = "string-min-length" -> <<CallN("minLength", rule.length)>>
      [] rule.id = "string-pattern" -> <<CallN("pattern", rule.pattern)>>
      [] rule.id = "number-multiple-of" -> <<CallN("multipleOf", rule.value)>>
      [] rule.id = "number-gt" -> <<CallN("gt", rule.value)>>
      [] rule.id = "number-gte" -> <<CallN("gte", rule.value)>>
      [] rule.id = "number-lt" -> <<CallN("lt", rule.value)>>
      [] rule.id = "number-lte" -> <<CallN("lte", rule.value)>>
      [] OTHER -> <<>>

\* the arguments of ensure(...) for one member
EnsureCalls(m) ==
    LET inner == IF m.isPrimitive
                 THEN TypeCalls(m)
                      \o Flatten([i \in 1..Len(m.rules) |-> ValueRuleCalls(m.rules[i])])
                 ELSE <<[h |-> "using", fn |-> buildTypeValidatorName(m.typeName)]>>
    IN  IF m.isArray
        THEN Flatten([i \in 1..Len(m.rules) |-> ArrayRuleCalls(m.rules[i])])
             \o <<[h |-> "array", inner |-> inner]>>
        ELSE inner

\* one emitted statement
MemberStatement(m) ==
    [method   |-> IF isRequired(m) THEN "required" ELSE "optional",
     accessor |-> buildMemberName(m),
     path     |-> m.name,
     ensure   |-> EnsureCalls(m)]

\* MemberValidatorFactory.build(members): the statements, members sorted by name
MemberValidatorBuild(members) ==
    LET sorted == SortByName(members)
    IN  [i \in 1..Len(sorted) |-> MemberStatement(sorted[i])]

-----------------------------------------------------------------------------
(* The service the generators are run on *)

Required      == [id |-> "required"]
MaxLength(n)  == [id |-> "string-max-length", length |-> n]

Member(name, typeName, isPrimitive, isArray, rules) ==
    [name |-> name, typeName |-> typeName, isPrimitive |-> isPrimitive,
     isArray |-> isArray, rules |-> rules]

\* service.types
\*   leaf { a?: string (max length 2); n: number }
\*   tree { leaf: leaf; kids?: tree[] }        (refers to itself)
\*   bare { }
\*   wide { a?: string; b?: string }
\*   slim { c: number }
\*   box  { pick: either; leaves: leaf[] }     (either is a Union)
\*   loose { x?: untyped }
ServiceTypes ==
    << [name |-> "leaf", properties |->
            << Member("n", "number", TRUE, FALSE, <<Required>>),
               Member("a", "string", TRUE, FALSE, <<MaxLength(2)>>) >>],
       [name |-> "tree", properties |->
            << Member("leaf", "leaf", FALSE, FALSE, <<Required>>),
               Member("kids", "tree", FALSE, TRUE, <<>>) >>],
       [name |-> "bare", properties |-> <<>>],
       [name |-> "wide", properties |->
            << Member("a", "string", TRUE, FALSE, <<>>),
               Member("b", "string", TRUE, FALSE, <<>>) >>],
       [name |-> "slim", properties |->
            << Member("c", "number", TRUE, FALSE, <<Required>>) >>],
       [name |-> "box", properties |->
            << Member("pick", "either", FALSE, FALSE, <<Required>>),
               Member("leaves", "leaf", FALSE, TRUE, <<Required>>) >>],
       [name |-> "loose", properties |->
            << Member("x", "untyped", TRUE, FALSE, <<>>) >>],
       [name |-> "cat", properties |->
            << Member("kind", "string", TRUE, FALSE, <<Required>>),
               Member("n", "number", TRUE, FALSE, <<Required>>) >>],
       [name |-> "dog", properties |->
            << Member("kind", "string", TRUE, FALSE, <<Required>>) >>] >>

\* service.unions: either = slim | wide
\* either has no discriminator; pet is discriminated by kind, the kind of a cat
\* being the literal "a" and the kind of a dog the literal "b"
ServiceUnions ==
    << [name |-> "either", members |-> << [typeName |-> "slim"], [typeName |-> "wide"] >>],
       [name |-> "pet", discriminator |-> "kind",
        members |-> << [typeName |-> "cat", constant |-> "a"],
                       [typeName |-> "dog", constant |-> "b"] >>] >>

Method(name, parameters, returnType) ==
    [name |-> name, parameters |-> parameters, returnType |-> returnType]

\* the methods of the interface; returnType is <<>> for a method without one
\*   get_widget(id: string (max length 2), opts?: loose): leaf
\*   put_widget(body: leaf)
\*   find_widgets(opts?: loose): either           (a Union)
\*   choose_widget(pick: either)
\*   ping()
\*   list_widgets(): leaf
ServiceMethods ==
    << Method("get_widget",
              << Member("id", "string", TRUE, FALSE, <<Required, MaxLength(2)>>),
                 Member("opts", "loose", FALSE, FALSE, <<>>) >>, <<"leaf">>),
       Method("put_widget", << Member("body", "leaf", FALSE, FALSE, <<Required>>) >>, <<>>),
       Method("find_widgets", << Member("opts", "loose", FALSE, FALSE, <<>>) >>, <<"either">>),
       Method("choose_widget", << Member("pick", "either", FALSE, FALSE, <<Required>>) >>, <<>>),
       Method("ping", <<>>, <<>>),
       Method("list_widgets", <<>>, <<"leaf">>) >>

\* getUnionByName(service, name): the Union, or undefined (here <<>>)
getUnionByName(name) == SelectSeq(ServiceUnions, LAMBDA u : u.name = name)

\* getTypeByName(service, name): the Type, or undefined (here <<>>)
getTypeByName(name) == SelectSeq(ServiceTypes, LAMBDA t : t.name = name)

-----------------------------------------------------------------------------
(* The emitted helpers (ValidatorMethodFactory) and the Validator class, run *)

Q(path) == "\"" \o path \o "\""
\* the suffix of a title that says ' if supplied' for a member that is not required
IfSupplied(isReq) == IF isReq THEN "" ELSE " if supplied"
\* the suffix of the titles that have the two branches the other way round
IfSuppliedSwapped(isReq) == IF isReq THEN " if supplied" ELSE ""

\* const required: ValidationFunction
RequiredHelper(value, path) ==
    IF TypeOf(value) = "undefined"
    THEN <<Err("REQUIRED", Q(path) \o " is required", path)>>
    ELSE <<>>

\* a nativeType that does not look at isRequired: it flags every value that is
\* not of the primitive kind, undefined included
NativeTypeFlagsAbsent(value, path, primitive, isReq) ==
    IF TypeOf(value) # primitive
    THEN <<Err("TYPE", Q(path) \o " must be a " \o primitive \o IfSuppliedSwapped(isReq), path)>>
    ELSE <<>>

\* function nativeType(value, path, primitive, isRequired)
NativeType(value, path, primitive, isReq) ==
    IF TypeOf(value) # primitive /\ (isReq \/ TypeOf(value) # "undefined")
    THEN <<Err("TYPE", Q(path) \o " must be a " \o primitive \o IfSuppliedSwapped(isReq), path)>>
    ELSE <<>>

\* const integer: ValidationFunction
IntegerHelper(value, path, isReq) ==
    IF \/ TypeOf(value) = "number" /\ HasFraction(value)
       \/ TypeOf(value) # "number" /\ (isReq \/ TypeOf(value) # "undefined")
    THEN <<Err("TYPE", Q(path) \o " must be an integer" \o IfSuppliedSwapped(isReq), path)>>
    ELSE <<>>

\* const date: ValidationFunction
DateHelper(value, path, isReq) ==
    IF value.k = "date" THEN <<>>
    ELSE IF isReq \/ TypeOf(value) # "undefined"
    THEN <<Err("TYPE", Q(path) \o " must be a Date" \o IfSuppliedSwapped(isReq), path)>>
    ELSE <<>>

\* a maxLength that compares with >= where the emitted one compares with >
MaxLengthHelperInclusive(max, value, path, isReq) ==
    IF TypeOf(value) = "string" /\ Len(value.s) >= max
    THEN <<Err("STRING_MAX_LENGTH",
               Q(path) \o " must be at most " \o ToStr(max) \o " characters" \o IfSupplied(isReq),
               path)>>
    ELSE <<>>

\* const maxLength: (max) => ValidationFunction
MaxLengthHelper(max, value, path, isReq) ==
    IF TypeOf(value) = "string" /\ Len(value.s) > max
    THEN <<Err("STRING_MAX_LENGTH",
               Q(path) \o " must be at most " \o ToStr(max) \o " characters" \o IfSupplied(isReq),
               path)>>
    ELSE <<>>

\* const minLength: (min) => ValidationFunction
MinLengthHelper(min, value, path, isReq) ==
    IF TypeOf(value) = "string" /\ Len(value.s) < min
    THEN <<Err("STRING_MIN_LENGTH",
               Q(path) \o " must be at most " \o ToStr(min) \o " characters" \o IfSupplied(isReq),
               path)>>
    ELSE <<>>

\* const pattern: (regex) => ValidationFunction
PatternHelper(regex, value, path, isReq) ==
    IF TypeOf(value) = "string" /\ ~RegexTest(regex, value.s)
    THEN <<Err("STRING_PATTERN",
               Q(path) \o " must match the pattern " \o Q("/" \o regex \o "/") \o IfSupplied(isReq),
               path)>>
    ELSE <<>>

\* const multipleOf, gt, gte, lt, lte: (n) => ValidationFunction
NumberRuleHelper(h, n, value, path, isReq) ==
    LET violated ==
            CASE h = "multipleOf" -> NotMultiple(value, n)
              [] h = "gt" -> NumLe(value, n)
              [] h = "gte" -> NumLt(value, n)
              [] h = "lt" -> NumGe(value, n)
              [] h = "lte" -> NumGt(value, n)
        code ==
            CASE h = "multipleOf" -> "NUMBER_MULTIPLE_OF"
              [] h = "gt" -> "NUMBER_GT"
              [] h = "gte" -> "NUMBER_GTE"
              [] h = "lt" -> "NUMBER_LT"
              [] h = "lte" -> "NUMBER_LTE"
        title ==
            CASE h = "multipleOf" -> " must be a multiple of " \o ToStr(n) \o IfSupplied(isReq)
              [] h = "gt" -> " must be greater than " \o ToStr(n) \o IfSuppliedSwapped(isReq)
              [] h = "gte" -> " must be greater than or equal to " \o ToStr(n) \o IfSuppliedSwapped(isReq)
              [] h = "lt" -> " must be less than " \o ToStr(n) \o IfSuppliedSwapped(isReq)
              [] h = "lte" -> " must be less than or equal to " \o ToStr(n) \o IfSuppliedSwapped(isReq)
    IN  IF (isReq \/ TypeOf(value) # "undefined") /\ TypeOf(value) = "number" /\ violated
        THEN <<Err(code, Q(path) \o title, path)>>
        ELSE <<>>

\* const maxItems, minItems: (n) => ValidationFunction
ItemCountHelper(h, n, value, path, isReq) ==
    IF IsArr(value) /\ (IF h = "maxItems" THEN Len(value.e) > n ELSE Len(value.e) < n)
    THEN <<Err(IF h = "maxItems" THEN "ARRAY_MAX_ITEMS" ELSE "ARRAY_MIN_ITEMS",
               Q(path) \o (IF h = "maxItems" THEN " must have at most " ELSE " must have at least ")
                       \o ToStr(n) \o " items" \o IfSupplied(isReq),
               path)>>
    ELSE <<>>

\* const uniqueItems: () => ValidationFunction
UniqueItemsHelper(value, path, isReq) ==
    IF IsArr(value)
    THEN LET at(i) == IF \E j \in 1..(i - 1) : SameValueZero(value.e[j], value.e[i])
                      THEN <<Err("ARRAY_UNIQUE_ITEMS",
                                 Q(path) \o " must have unique items" \o IfSupplied(isReq),
                                 path \o "[" \o ToStr(i - 1) \o "]")>>
                      ELSE <<>>
         IN  Flatten([i \in 1..Len(value.e) |-> at(i)])
    ELSE <<>>

RECURSIVE ApplyCall(_, _, _, _)
RECURSIVE TypeValidator(_, _, _)

\* validators applied in turn to one value: the loop of Validator.run and the
\* inner loop of array
ApplyCalls(calls, value, path, isReq) ==
    LET acc[i \in 0..Len(calls)] ==
            IF i = 0 THEN Ret(<<>>)
            ELSE Both(acc[i - 1], ApplyCall(calls[i], value, path, isReq))
    IN  acc[Len(calls)]

\* const array: (...validators) => ValidationFunction
ArrayHelper(inner, value, path, isReq) ==
    IF IsArr(value)
    THEN LET acc[i \in 0..Len(value.e)] ==
                 IF i = 0 THEN Ret(<<>>)
                 ELSE Both(acc[i - 1],
                           ApplyCalls(inner, value.e[i],
                                      path \o "[" \o ToStr(i - 1) \o "]", isReq))
         IN  acc[Len(value.e)]
    ELSE IF TypeOf(value) # "undefined"
    THEN Ret(<<Err("TYPE", Q(path) \o " must be an array" \o IfSupplied(isReq), path)>>)
    ELSE Ret(<<>>)

\* const using: (validator) => ValidationFunction = (validator) =>
\*   (value, path) => validator(value, path)
UsingHelper(fn, value, path) ==
    LET hit == {i \in 1..Len(ServiceTypes) : buildTypeValidatorName(ServiceTypes[i].name) = fn}
    IN  TypeValidator(ServiceTypes[CHOOSE i \in hit : TRUE], value, Str(path))

\* one helper of an ensure(...) list, applied
ApplyCall(c, value, path, isReq) ==
    CASE c.h = "required" -> Ret(RequiredHelper(value, path))
      [] c.h \in {"string", "number", "boolean"} -> Ret(NativeType(value, path, c.h, isReq))
      [] c.h = "integer" -> Ret(IntegerHelper(value, path, isReq))
      [] c.h = "date" -> Ret(DateHelper(value, path, isReq))
      [] c.h = "maxLength" -> Ret(MaxLengthHelper(c.arg, value, path, isReq))
      [] c.h = "minLength" -> Ret(MinLengthHelper(c.arg, value, path, isReq))
      [] c.h = "pattern" -> Ret(PatternHelper(c.arg, value, path, isReq))
      [] c.h \in {"multipleOf", "gt", "gte", "lt", "lte"} ->
            Ret(NumberRuleHelper(c.h, c.arg, value, path, isReq))
      [] c.h \in {"maxItems", "minItems"} -> Ret(ItemCountHelper(c.h, c.arg, value, path, isReq))
      [] c.h = "uniqueItems" -> Ret(UniqueItemsHelper(value, path, isReq))
      [] c.h = "array" -> ArrayHelper(c.inner, value, path, isReq)
      [] c.h = "using" -> UsingHelper(c.fn, value, path)

\* Validator.run(value, path, validators, isRequired), with this.parentPath
ValidatorRun(parentPath, value, path, calls, isReq) ==
    ApplyCalls(calls, value,
               IF Truthy(parentPath) THEN parentPath.s \o "." \o path ELSE path,
               isReq)

\* validator.required(value, path).ensure(...) and validator.optional(...).ensure(...)
ValidatorEnsure(parentPath, method, value, path, calls) ==
    ValidatorRun(parentPath, value, path,
                 IF method = "required" THEN <<Call("required")>> \o calls ELSE calls,
                 method = "required")

\* the emitted body: const validator = new Validator(parentPath); the statements
\* in turn, each reading params.<accessor>; return validator.errors
RunStatements(statements, params, parentPath) ==
    LET acc[i \in 0..Len(statements)] ==
            IF i = 0 THEN Ret(<<>>)
            ELSE IF GetThrows(params) THEN Thrown
            ELSE Both(acc[i - 1],
                      ValidatorEnsure(parentPath, statements[i].method,
                                      Get(params, statements[i].accessor),
                                      statements[i].path, statements[i].ensure))
    IN  acc[Len(statements)]

\* the validator emitted for a Type: validate<Type>(params, parentPath?)
TypeValidator(type, params, parentPath) ==
    RunStatements(MemberValidatorBuild(type.properties), params, parentPath)

-----------------------------------------------------------------------------
(* ValidatorFactory: the guard clauses it emits, run.  Each clause reads      *)
(* params.<name> and pushes onto errors; nested errors keep their own paths.  *)

\* service.enums
ServiceEnums == << [name |-> "color", values |-> <<"red", "green">>] >>

\* constant(id) of `case`: string-max-length -> STRING_MAX_LENGTH
constant(id) ==
    CASE id = "required" -> "REQUIRED"
      [] id = "type" -> "TYPE"
      [] id = "string-enum" -> "STRING_ENUM"
      [] id = "string-max-length" -> "STRING_MAX_LENGTH"
      [] id = "string-min-length" -> "STRING_MIN_LENGTH"
      [] id = "string-pattern" -> "STRING_PATTERN"
      [] id = "number-multiple-of" -> "NUMBER_MULTIPLE_OF"
      [] id = "number-gt" -> "NUMBER_GT"
      [] id = "number-gte" -> "NUMBER_GTE"
      [] id = "number-lt" -> "NUMBER_LT"
      [] id = "number-lte" -> "NUMBER_LTE"
      [] id = "array-max-items" -> "ARRAY_MAX_ITEMS"
      [] id = "array-min-items" -> "ARRAY_MIN_ITEMS"
      [] id = "array-unique-items" -> "ARRAY_UNIQUE_ITEMS"

\* buildError(id, title, path): the error the emitted errors.push adds
buildError(id, title, path) == Err(constant(id), title, path)

\* buildRootTypeName(member) of @basketry/typescript
buildRootTypeName(m) ==
    CASE m.typeName = "string" -> "string"
      [] m.typeName \in {"number", "integer", "long", "float", "double"} -> "number"
      [] m.typeName = "boolean" -> "boolean"
      [] m.typeName \in {"date", "date-time"} -> "Date"
      [] OTHER -> "any"

\* `[${values.map((v) => `"${v}"`).join(', ')}]`
ValuesText(values) ==
    LET cat[i \in 0..Len(values)] ==
            IF i = 0 THEN ""
            ELSE cat[i - 1] \o (IF i = 1 THEN "" ELSE ", ") \o Q(values[i])
    IN  "[" \o cat[Len(values)] \o "]"

\* buildMessage(param, message)
buildMessage(m, message) == IF m.isArray THEN "Each item in " \o message ELSE message

\* buildRequiredClause(param), run on params (params is an object)
RequiredClause(m, params) ==
    IF isRequired(m) /\ TypeOf(Get(params, camel(m.name))) = "undefined"
    THEN <<buildError("required", Q(camel(m.name)) \o " is required", camel(m.name))>>
    ELSE <<>>

\* buildPrimitiveTypeClause(param), run on params
PrimitiveTypeClause(m, params) ==
    LET root == buildRootTypeName(m)
        value == Get(params, camel(m.name))
        rootCondition(v) ==
            CASE m.typeName \in {"date", "date-time"} -> v.k # "date"
              [] m.typeName \in {"integer", "long"} ->
                    TypeOf(v) # root \/ (v.half /\ ~IsNaN(v))
              [] OTHER -> TypeOf(v) # root
        bad(v) == rootCondition(v) \/ (root = "number" /\ IsNaN(v))
        requiredType == IF m.typeName \in {"integer", "long"} THEN "an integer" ELSE "a " \o root
    IN  IF /\ m.isPrimitive
           /\ m.typeName # "untyped"
           /\ IF m.isArray THEN IsArr(value) /\ \E i \in 1..Len(value.e) : bad(value.e[i])
                           ELSE TypeOf(value) # "undefined" /\ bad(value)
        THEN <<buildError("type",
                          buildMessage(m, Q(camel(m.name)) \o " must be " \o requiredType
                                          \o IfSupplied(isRequired(m))),
                          camel(m.name))>>
        ELSE <<>>

\* the values the conditions of one member are tested on: the elements of an
\* array member's array, else the value
Tested(m, value) ==
    IF ~m.isArray THEN {value}
    ELSE IF IsArr(value) THEN {value.e[i] : i \in 1..Len(value.e)}
    ELSE {}

\* buildConditions(param, conditions), run, where `met` are the tested values
\* that meet the conditions: for an array member
\* Array.isArray(v) && !v.some(cond), else cond(v)
Conditions(m, value, met) ==
    IF m.isArray THEN IsArr(value) /\ met = {} ELSE met # {}

\* the twelve rule factories of ValidatorFactory for one rule of one member,
\* run on params: the errors pushed, or thrown
RuleClause(m, rule, params) ==
    LET name == camel(m.name)
        value == Get(params, name)
        str(P(_)) ==
            Conditions(m, value, {v \in Tested(m, value) : TypeOf(v) = "string" /\ P(v)})
        num(P(_)) ==
            Conditions(m, value, {v \in Tested(m, value) : TypeOf(v) = "number" /\ P(v)})
        push(cond, title) == Ret(IF cond THEN <<buildError(rule.id, title, name)>> ELSE <<>>)
    IN  CASE rule.id = "string-enum" ->
               push(str(LAMBDA v : \A i \in 1..Len(rule.values) : rule.values[i] # v.s),
                    buildMessage(m, Q(name) \o " must be one of " \o ValuesText(rule.values)))
          [] rule.id = "string-max-length" ->
               push(str(LAMBDA v : Len(v.s) > rule.length),
                    buildMessage(m, Q(name) \o " max length is " \o ToStr(rule.length)))
          [] rule.id = "string-min-length" ->
               push(str(LAMBDA v : Len(v.s) < rule.length),
                    buildMessage(m, Q(name) \o " min length is " \o ToStr(rule.length)))
          [] rule.id = "string-pattern" ->
               push(str(LAMBDA v : RegexTest(rule.pattern, v.s)),
                    buildMessage(m, Q(name) \o " must match the pattern /" \o rule.pattern \o "/"))
          [] rule.id = "number-multiple-of" ->
               push(num(LAMBDA v : NotMultiple(v, rule.value)),
                    buildMessage(m, Q(name) \o " must be a multiple of " \o ToStr(rule.value)))
          [] rule.id = "number-gt" ->
               push(num(LAMBDA v : NumLe(v, rule.value)),
                    buildMessage(m, Q(name) \o " must be greater than " \o ToStr(rule.value)))
          [] rule.id = "number-gte" ->
               push(num(LAMBDA v : NumLt(v, rule.value)),
                    buildMessage(m, Q(name) \o " must be greater than or equal to " \o ToStr(rule.value)))
          [] rule.id = "number-lt" ->
               push(num(LAMBDA v : NumGe(v, rule.value)),
                    buildMessage(m, Q(name) \o " must be less than " \o ToStr(rule.value)))
          [] rule.id = "number-lte" ->
               push(num(LAMBDA v : NumGt(v, rule.value)),
                    buildMessage(m, Q(name) \o " must be less than or equal to " \o ToStr(rule.value)))
          [] rule.id = "array-max-items" ->
               push(IsArr(value) /\ Len(value.e) > rule.max,
                    Q(name) \o " max length is " \o ToStr(rule.max))
          [] rule.id = "array-min-items" ->
               push(IsArr(value) /\ Len(value.e) < rule.min,
                    Q(name) \o " min length is " \o ToStr(rule.min))
          \* Array.isArray(params.x) && params.x.length === new Set(x).length:
          \* the bare identifier x is not in scope, a ReferenceError
          [] rule.id = "array-unique-items" ->
               IF IsArr(value) THEN Thrown ELSE Ret(<<>>)
          [] OTHER -> Ret(<<>>)

RECURSIVE ClauseTypeValidator(_, _)

\* export function validate<Enum>(value): the errors are pushed onto a local
\* list and the function ends with `return [];`
EnumValidator(e, value) ==
    LET errors ==
            IF TypeOf(value) = "string" /\ \A i \in 1..Len(e.values) : e.values[i] # value.s
            THEN <<buildError("string-enum", "Value must be one of " \o ValuesText(e.values), "")>>
            ELSE <<>>
    IN  Ret(<<>>)

\* the emitted validate<Name>(value) a custom-typed member delegates to
CallClauseValidator(fn, value) ==
    LET types == {i \in 1..Len(ServiceTypes) : buildTypeValidatorName(ServiceTypes[i].name) = fn}
        enums == {i \in 1..Len(ServiceEnums) : buildEnumValidatorName(ServiceEnums[i].name) = fn}
    IN  IF types # {} THEN ClauseTypeValidator(ServiceTypes[CHOOSE i \in types : TRUE], value)
        ELSE IF enums # {} THEN EnumValidator(ServiceEnums[CHOOSE i \in enums : TRUE], value)
        ELSE Thrown

\* buildCustomTypeClause(param), run on params:
\*   if (typeof params.x !== 'undefined') params.x.forEach(item => errors.push(...f(item)))
\*   if (typeof params.x !== 'undefined') errors.push(...f(params.x))
CustomTypeClause(m, params) ==
    LET value == Get(params, camel(m.name))
        fn == buildTypeValidatorName(m.typeName)
    IN  IF m.isPrimitive \/ TypeOf(value) = "undefined" THEN Ret(<<>>)
        ELSE IF ~m.isArray THEN CallClauseValidator(fn, value)
        ELSE IF ~IsArr(value) THEN Thrown
        ELSE LET acc[i \in 0..Len(value.e)] ==
                     IF i = 0 THEN Ret(<<>>)
                     ELSE Both(acc[i - 1], CallClauseValidator(fn, value.e[i]))
             IN  acc[Len(value.e)]

\* the clauses emitted for one member, in the order of emission
MemberClauses(m, params) ==
    LET rules[i \in 0..Len(m.rules)] ==
            IF i = 0 THEN Ret(<<>>) ELSE Both(rules[i - 1], RuleClause(m, m.rules[i], params))
        emitsNothing ==
            /\ ~isRequired(m)
            /\ m.isPrimitive /\ m.typeName = "untyped"
            /\ \A i \in 1..Len(m.rules) : m.rules[i].id = "required"
    IN  IF emitsNothing THEN Ret(<<>>)
        ELSE IF GetThrows(params) THEN Thrown
        ELSE Both(Ret(RequiredClause(m, params)),
                  Both(Ret(PrimitiveTypeClause(m, params)),
                       Both(CustomTypeClause(m, params), rules[Len(m.rules)])))

\* the clauses of all members, in declaration order
MembersClauses(members, params) ==
    LET acc[i \in 0..Len(members)] ==
            IF i = 0 THEN Ret(<<>>) ELSE Both(acc[i - 1], MemberClauses(members[i], params))
    IN  acc[Len(members)]

\* ValidatorFactory.buildTypeValidator: validate<Type>(params)
ClauseTypeValidator(type, params) == MembersClauses(type.properties, params)

\* hasOnlyOptionalParameters(method) of basketry
hasOnlyOptionalParameters(method) ==
    /\ Len(method.parameters) > 0
    /\ \A i \in 1..Len(method.parameters) : ~isRequired(method.parameters[i])

\* ValidatorFactory.buildMethodParamsValidator: validate<Method>Params(params)
ParamsValidator(method, params) ==
    IF hasOnlyOptionalParameters(method) /\ ~Truthy(params) THEN Ret(<<>>)
    ELSE MembersClauses(method.parameters, params)

\* the type validator of either emitter
ValidateType(g, type, params, parentPath) ==
    IF g = "helpers" THEN TypeValidator(type, params, parentPath)
    ELSE ClauseTypeValidator(type, params)

\* !errors.length for the outcome of a validator
NoErrors(r) == IF r.thrown THEN Thrown ELSE Ret(Len(r.val) = 0)

\* a type guard without the test typeof obj !== 'undefined'
TypeGuardWithoutUndefinedTest(g, type, obj) == NoErrors(ValidateType(g, type, obj, Undef))

\* buildTypeGuard: is<Type>(obj) { return typeof obj !== 'undefined' &&
\* !validate<Type>(obj).length }
TypeGuard(g, type, obj) ==
    IF TypeOf(obj) = "undefined" THEN Ret(FALSE)
    ELSE NoErrors(ValidateType(g, type, obj, Undef))

-----------------------------------------------------------------------------
(* SanitizerFactory: the sanitizers it emits, run.  srev is the revision of   *)
(* the emitter: "probe" (union sanitizers that probe type guards) or "merge"  *)
(* (union sanitizers that merge the results of all member sanitizers).        *)

\* a compact that keeps the keys whose value is undefined
compactKeepingUndefined(obj) == obj

\* function compact(obj) / stripUndefinedValues(obj): the keys of obj whose value
\* is not undefined
compact(obj) ==
    Obj([key \in {k \in DOMAIN obj.o : TypeOf(obj.o[k]) # "undefined"} |-> obj.o[key]])

\* return compact(sanitized) for an evaluated object literal
Compacted(sanitized) == IF sanitized.thrown THEN Thrown ELSE Ret(compact(sanitized.val))

\* the values of evaluated expressions, unless one of them throws
Collect(outcomes) ==
    IF \E i \in 1..Len(outcomes) : outcomes[i].thrown THEN Thrown
    ELSE Ret([i \in 1..Len(outcomes) |-> outcomes[i].val])

\* the object literal { name1: v1, name2: v2, ... } of evaluated properties
Literal(names, outcomes) ==
    IF \E i \in 1..Len(outcomes) : outcomes[i].thrown THEN Thrown
    ELSE Ret(Obj([key \in {names[i] : i \in 1..Len(names)} |->
                    outcomes[CHOOSE i \in 1..Len(names) : names[i] = key].val]))

\* a comparison that never puts one member before another
MorePropertiesNever(a, b) == FALSE

\* Sort by number of properties in descending order (stable); members that are
\* not Types compare equal to everything
MoreProperties(a, b) ==
    /\ getTypeByName(a.typeName) # <<>> /\ getTypeByName(b.typeName) # <<>>
    /\ Len(getTypeByName(a.typeName)[1].properties) > Len(getTypeByName(b.typeName)[1].properties)

RECURSIVE InsertMember(_, _)
InsertMember(sorted, m) ==
    IF sorted = <<>> THEN <<m>>
    ELSE IF MoreProperties(m, Head(sorted)) THEN <<m>> \o sorted
    ELSE <<Head(sorted)>> \o InsertMember(Tail(sorted), m)

RECURSIVE SortMembers(_)
\* union.members.sort((a, b) => bb.properties.length - aa.properties.length)
SortMembers(ms) ==
    IF ms = <<>> THEN <<>>
    ELSE InsertMember(SortMembers(SubSeq(ms, 1, Len(ms) - 1)), ms[Len(ms)])

\* sanitize<Name>(value) for the name of a Type or of a Union
RECURSIVE SanitizeNamed(_, _, _, _)

\* the initializer with the array handed on as it is, not mapped
SanitizeMemberWithoutMap(rev, g, m, value, withUnions) ==
    LET found == /\ ~m.isPrimitive
                 /\ \/ getTypeByName(m.typeName) # <<>>
                    \/ withUnions /\ getUnionByName(m.typeName) # <<>>
    IN  IF ~found \/ m.isArray THEN Ret(value)
        ELSE IF ~isRequired(m) /\ TypeOf(value) = "undefined" THEN Ret(Undef)
        ELSE SanitizeNamed(rev, g, m.typeName, value)

\* the initializer emitted for one property or parameter, evaluated: value is
\* obj.<name>, withUnions says whether getUnionByName is consulted
SanitizeMember(rev, g, m, value, withUnions) ==
    LET found == /\ ~m.isPrimitive
                 /\ \/ getTypeByName(m.typeName) # <<>>
                    \/ withUnions /\ getUnionByName(m.typeName) # <<>>
        \* sanitize<Name>(value), or value.map(sanitize<Name>), which throws when
        \* value has no map method
        items == IF m.isArray THEN value.e ELSE <<value>>
        result(each) ==
            IF each.thrown THEN Thrown
            ELSE Ret(IF m.isArray THEN Arr(each.val) ELSE each.val[1])
    IN  IF ~found THEN Ret(value)
        ELSE IF ~isRequired(m) /\ TypeOf(value) = "undefined" THEN Ret(Undef)
        ELSE IF m.isArray /\ ~IsArr(value) THEN Thrown
        ELSE result(Collect([i \in 1..Len(items) |->
                                SanitizeNamed(rev, g, m.typeName, items[i])]))

\* export function sanitize<Type>(obj)
SanitizeType(rev, g, type, obj) ==
    LET props == SortByName(type.properties)
        names == [i \in 1..Len(props) |-> camel(props[i].name)]
    IN  IF Len(props) > 0 /\ GetThrows(obj) THEN Thrown
        ELSE Compacted(Literal(names, [i \in 1..Len(props) |->
                    SanitizeMember(rev, g, props[i], Get(obj, names[i]), TRUE)]))

\* { ...acc, ...val } for two objects
Spread(acc, val) ==
    Obj([key \in DOMAIN acc.o \cup DOMAIN val.o |->
            IF key \in DOMAIN val.o THEN val.o[key] ELSE acc.o[key]])

\* the union sanitizer that probes the type guards of all members but the last,
\* most properties first: if (validators.is<A>(obj)) { return sanitize<A>(obj) }
\* else if ... else { return sanitize<Last>(obj) }
SanitizeUnionProbe(rev, g, union, obj) ==
    LET members == SortMembers(union.members)
        \* the member whose sanitizer is called, from member i on; 0 when a guard throws
        from[i \in 1..Len(members)] ==
            IF i = Len(members) THEN i
            ELSE LET guard == TypeGuard(g, getTypeByName(members[i].typeName)[1], obj)
                 IN  IF guard.thrown THEN 0
                     ELSE IF guard.val THEN i
                     ELSE from[i + 1]
        branch(i) == IF i = 0 THEN Thrown ELSE SanitizeNamed(rev, g, members[i].typeName, obj)
    IN  branch(from[1])

\* the union sanitizer that sanitizes obj as every member and merges the results
SanitizeUnionMerge(rev, g, union, obj) ==
    LET reduce(each) ==
            LET acc[i \in 0..Len(each)] ==
                    IF i = 0 THEN Obj(<<>>) ELSE Spread(acc[i - 1], each[i])
            IN  acc[Len(each)]
        merged(each) == IF each.thrown THEN Thrown ELSE Ret(compact(reduce(each.val)))
    IN  merged(Collect([i \in 1..Len(union.members) |->
                           SanitizeNamed(rev, g, union.members[i].typeName, obj)]))

\* export function sanitize<Union>(obj)
SanitizeUnion(rev, g, union, obj) ==
    IF rev = "probe" THEN SanitizeUnionProbe(rev, g, union, obj)
    ELSE SanitizeUnionMerge(rev, g, union, obj)

SanitizeNamed(rev, g, name, value) ==
    IF \E i \in 1..Len(ServiceUnions) : ServiceUnions[i].name = name
    THEN SanitizeUnion(rev, g, getUnionByName(name)[1], value)
    ELSE SanitizeType(rev, g, getTypeByName(name)[1], value)

\* export function sanitize<Method>Params(params): params.<name>, or
\* params?.<name> when no parameter is required
SanitizeParams(rev, g, method, params) ==
    LET hasRequiredParams == \E i \in 1..Len(method.parameters) : isRequired(method.parameters[i])
        sorted == SortByName(method.parameters)
        names == [i \in 1..Len(sorted) |-> camel(sorted[i].name)]
        read(name) == IF GetThrows(params) THEN Undef ELSE Get(params, name)
    IN  IF hasRequiredParams /\ GetThrows(params) THEN Thrown
        ELSE Compacted(Literal(names, [i \in 1..Len(sorted) |->
                    SanitizeMember(rev, g, sorted[i], read(names[i]), FALSE)]))

-----------------------------------------------------------------------------
(* The validator of a discriminated Union.  Its emitter is not among the       *)
(* sources; it is taken from the specification: a switch on the discriminator  *)
(* whose cases call the validators of the member Types by their generated      *)
(* names, and whose default reports one string-enum error.                     *)

\* the emitted function of that name, called on value: the validator of the first
\* Type it was emitted for, a ReferenceError when there is none
CallTypeValidatorNamed(g, fn, value) ==
    LET types == SelectSeq(ServiceTypes, LAMBDA t : buildTypeValidatorName(t.name) = fn)
    IN  IF Len(types) = 0 THEN Thrown ELSE ValidateType(g, types[1], value, Undef)

\* validate<Union>(value)
UnionValidator(g, union, value) ==
    IF GetThrows(value) THEN Thrown
    ELSE LET tag == Get(value, union.discriminator)
             cases == SelectSeq(union.members, LAMBDA m : tag = Str(m.constant))
             literals == [i \in 1..Len(union.members) |-> union.members[i].constant]
         IN  IF Len(cases) = 0
             THEN Ret(<<buildError("string-enum", "Value must be one of " \o ValuesText(literals),
                                   union.discriminator)>>)
             ELSE CallTypeValidatorNamed(g, buildTypeValidatorName(cases[1].typeName), value)

-----------------------------------------------------------------------------
(* Bounds and inputs *)

\* strings have at most MaxStrLen characters
MaxStrLen == 3
\* a string-max-length rule allows at most 1..MaxRuleLen characters
MaxRuleLen == 2

StringEnum(values) == [id |-> "string-enum", values |-> values]
MinLength(n)  == [id |-> "string-min-length", length |-> n]
Pattern(re)   == [id |-> "string-pattern", pattern |-> re]
MultipleOf(n) == [id |-> "number-multiple-of", value |-> n]
Gt(n)         == [id |-> "number-gt", value |-> n]
Lte(n)        == [id |-> "number-lte", value |-> n]
MaxItems(n)   == [id |-> "array-max-items", max |-> n]
MinItems(n)   == [id |-> "array-min-items", min |-> n]
UniqueItems   == [id |-> "array-unique-items"]

PrimitiveKinds == {"string", "number", "integer", "boolean", "date", "untyped"}
CustomKinds    == {"leaf", "bare"}

\* the value rules a member of a kind is declared with
ValueRuleSets(kind) ==
    CASE kind = "string" ->
            {<<>>, <<MinLength(1), Pattern("^a+$")>>, <<StringEnum(<<"a", "b">>)>>}
            \cup {<<MaxLength(n)>> : n \in 1..MaxRuleLen}
      [] kind \in {"number", "integer"} -> {<<>>, <<Gt(0)>>, <<MultipleOf(2), Lte(2)>>}
      [] OTHER -> {<<>>}
\* the array rules an array member is declared with
ArrayRuleSets(isArray) ==
    IF isArray THEN {<<>>, <<MaxItems(1), MinItems(1)>>, <<UniqueItems>>} ELSE {<<>>}

\* the declarations of the member under test; its name is not an identifier, so
\* the accessor (maxLen) differs from the name (max-len)
MemberDecls ==
    UNION { { Member("max-len", kind, kind \in PrimitiveKinds, isArray,
                     (IF req THEN <<Required>> ELSE <<>>) \o ar \o vr) :
                req \in BOOLEAN, ar \in ArrayRuleSets(isArray), vr \in ValueRuleSets(kind) } :
            kind \in PrimitiveKinds \cup CustomKinds, isArray \in BOOLEAN }

\* a type that declares the member under test and a required string sibling
Probe(m) ==
    [name |-> "probe",
     properties |-> << m, Member("alpha", "string", TRUE, FALSE, <<Required>>) >>]

IsEnum(s) == "values" \in DOMAIN s
IsType(s) == "properties" \in DOMAIN s
IsUnion(s) == "members" \in DOMAIN s

\* the values a member holds
MemberValues ==
    {Undef, Null, Str("b"), Num(0), Num(2), Num(3), Frac(1), NaN, Bool(TRUE), DateV}
    \cup {Str(Rep(n)) : n \in 0..MaxStrLen}
    \cup {Obj(<<>>), Obj([n |-> Num(1)]), Obj([n |-> Num(1), a |-> Str(Rep(MaxStrLen))])}
    \cup {Arr(<<>>), Arr(<<Str("a"), Str(Rep(MaxStrLen))>>), Arr(<<Num(2), Num(2)>>),
          Arr(<<Obj([n |-> Num(1)]), Obj(<<>>)>>), Arr(<<Undef>>)}

\* an object literal: the fields whose value is not undefined
Fields(pairs) ==
    LET keys == {pairs[i][1] : i \in {j \in 1..Len(pairs) : pairs[j][2] # Undef}}
    IN  [key \in keys |-> pairs[CHOOSE i \in 1..Len(pairs) : pairs[i][1] = key][2]]

\* values that are not objects of the type
Strangers == {Undef, Null, Num(1), Str("a")}

ProbeInputs ==
    {Obj(Fields(<<<<"maxLen", v>>, <<"alpha", a>>>>)) : v \in MemberValues, a \in {Undef, Str("a")}}
    \cup Strangers

CatalogInputs ==
    {Obj(<<>>), Obj([n |-> Num(1)]), Obj([a |-> Str(Rep(MaxStrLen))]),
     Obj([n |-> Num(1), a |-> Str("a"), zz |-> Num(9)]),
     Obj([leaf |-> Obj([n |-> Num(1)])]),
     Obj([leaf |-> Obj(<<>>), kids |-> Arr(<<Obj([leaf |-> Obj([a |-> Num(1)])])>>)]),
     Obj([leaf |-> Obj([n |-> Num(1)]), kids |-> Arr(<<Obj(<<>>)>>)]),
     Obj([kids |-> Str("a")]),
     Obj([a |-> Num(5), c |-> Num(1)]), Obj([c |-> Num(1)]), Obj([a |-> Str("a"), b |-> Str("b")])}
    \cup Strangers

EnumInputs ==
    {Str("red"), Str("green"), Str("blue"), Str(""), Num(1), Bool(TRUE), Null, Undef,
     Obj(<<>>), Arr(<<Str("red")>>)}

\* the Types whose custom-typed members are all of a Type: the validator of a
\* Union-typed member is emitted by code that is not part of this model
ValidatedTypes ==
    {ServiceTypes[i] : i \in {j \in 1..Len(ServiceTypes) :
        \A k \in 1..Len(ServiceTypes[j].properties) :
            LET m == ServiceTypes[j].properties[k]
            IN  m.isPrimitive \/ getTypeByName(m.typeName) # <<>>}}

TypeSubjects == {Probe(m) : m \in MemberDecls} \cup ValidatedTypes
EnumSubjects == {ServiceEnums[i] : i \in 1..Len(ServiceEnums)}
\* the discriminated Unions
UnionSubjects ==
    {ServiceUnions[i] : i \in {j \in 1..Len(ServiceUnions) : "discriminator" \in DOMAIN ServiceUnions[j]}}

\* values tagged as a cat, as a dog, otherwise, and not at all
UnionInputs ==
    {Obj([kind |-> Str("a"), n |-> Num(1)]), Obj([kind |-> Str("a")]),
     Obj([kind |-> Str("a"), n |-> Str("a"), a |-> Num(5)]),
     Obj([kind |-> Str("b")]), Obj([kind |-> Str("b"), n |-> Num(1)]),
     Obj([kind |-> Str("c"), n |-> Num(1)]), Obj([kind |-> Str("")]), Obj([kind |-> Num(1)]),
     Obj([kind |-> Null]), Obj([n |-> Num(1)])}
    \cup Strangers

InputsOf(s) ==
    IF IsEnum(s) THEN EnumInputs
    ELSE IF IsUnion(s) THEN UnionInputs
    ELSE IF s.name = "probe" THEN ProbeInputs ELSE CatalogInputs

\* a result that has not been computed
NotRun == [thrown |-> FALSE, none |-> TRUE]
\* no wrapper call in progress
Idle == [errors |-> <<>>]

\* the generators have finished: the emitted text is what the run executes
Built == [phase |-> "built"]

-----------------------------------------------------------------------------
(* The validators, run: one generated validator is called on one input, then  *)
(* the type guard of the same type on the same input                          *)

InitV ==
    /\ pc = "start"
    /\ gen \in {"helpers", "clauses"}
    /\ srev = "probe"
    /\ subject \in TypeSubjects \cup EnumSubjects \cup UnionSubjects
    /\ input \in InputsOf(subject)
    /\ parent \in IF gen = "helpers" /\ IsType(subject) THEN {Undef, Str("p")} ELSE {Undef}
    /\ vres = NotRun /\ gres = NotRun /\ sres = NotRun /\ sres2 = NotRun
    /\ w = Idle
    /\ build = Built

\* validate<Type>(input, parent)
CallTypeValidator ==
    /\ pc = "start" /\ IsType(subject)
    /\ vres' = ValidateType(gen, subject, input, parent)
    /\ pc' = "validated"
    /\ UNCHANGED <<setup, gres, sres, sres2, w>>

\* is<Type>(input)
CallTypeGuard ==
    /\ pc = "validated" /\ IsType(subject)
    /\ gres' = TypeGuard(gen, subject, input)
    /\ pc' = "done"
    /\ UNCHANGED <<setup, vres, sres, sres2, w>>

\* validate<Enum>(input)
CallEnumValidator ==
    /\ pc = "start" /\ IsEnum(subject)
    /\ vres' = EnumValidator(subject, input)
    /\ pc' = "done"
    /\ UNCHANGED <<setup, gres, sres, sres2, w>>

\* validate<Union>(input)
CallUnionValidator ==
    /\ pc = "start" /\ IsUnion(subject)
    /\ vres' = UnionValidator(gen, subject, input)
    /\ pc' = "done"
    /\ UNCHANGED <<setup, gres, sres, sres2, w>>

NextV == CallTypeValidator \/ CallTypeGuard \/ CallEnumValidator \/ CallUnionValidator

SpecV == InitV /\ [][NextV]_vars

-----------------------------------------------------------------------------
(* The sanitizers, run: one generated sanitizer is called on one input, then  *)
(* on its own result                                                          *)

SanitizerInputs ==
    CatalogInputs
    \cup {Obj([n |-> Num(1), a |-> Undef, zz |-> Undef]),
          Obj([pick |-> Obj([a |-> Num(5), c |-> Num(1)]), leaves |-> Arr(<<>>)]),
          Obj([pick |-> Obj([a |-> Str("a"), zz |-> Num(9)]),
               leaves |-> Arr(<<Obj([n |-> Num(1), zz |-> Num(9)]), Obj([a |-> Undef])>>),
               zz |-> Num(9)]),
          Obj([pick |-> Null, leaves |-> Arr(<<Num(1)>>)]),
          Obj([leaves |-> Arr(<<Undef>>)]),
          Obj([x |-> Obj([zz |-> Num(9)])]), Obj([a |-> Num(5), zz |-> Num(9)]),
          Obj([leaf |-> Obj([n |-> Num(1), zz |-> Num(9)]),
               kids |-> Arr(<<Obj([leaf |-> Obj([a |-> Str("a")]), zz |-> Num(9)])>>)])}

IsMethod(s) == "parameters" \in DOMAIN s

\* the Types and Unions, and the Methods that have parameters
SanitizerSubjects ==
    {ServiceTypes[i] : i \in 1..Len(ServiceTypes)}
    \cup {ServiceUnions[i] : i \in 1..Len(ServiceUnions)}
    \cup {ServiceMethods[i] : i \in {k \in 1..Len(ServiceMethods) : Len(ServiceMethods[k].parameters) > 0}}

\* sanitize<Name>(value), or sanitize<Method>Params(value) for a Method
Sanitize(rev, g, s, value) ==
    IF IsMethod(s) THEN SanitizeParams(rev, g, s, value) ELSE SanitizeNamed(rev, g, s.name, value)

InitS ==
    /\ pc = "start"
    /\ srev \in {"probe", "merge"}
    /\ gen \in IF srev = "probe" THEN {"helpers", "clauses"} ELSE {"clauses"}
    /\ subject \in SanitizerSubjects
    /\ input \in SanitizerInputs
    /\ parent = Undef
    /\ vres = NotRun /\ gres = NotRun /\ sres = NotRun /\ sres2 = NotRun
    /\ w = Idle
    /\ build = Built

\* sanitize<Name>(input)
CallSanitizer ==
    /\ pc = "start"
    /\ sres' = Sanitize(srev, gen, subject, input)
    /\ pc' = "sanitized"
    /\ UNCHANGED <<setup, vres, gres, sres2, w>>

\* sanitize<Name>(sanitize<Name>(input))
CallSanitizerAgain ==
    /\ pc = "sanitized" /\ ~sres.thrown
    /\ sres2' = Sanitize(srev, gen, subject, sres.val)
    /\ pc' = "done"
    /\ UNCHANGED <<setup, vres, gres, sres, w>>

NextS == CallSanitizer \/ CallSanitizerAgain

SpecS == InitS /\ [][NextS]_vars

-----------------------------------------------------------------------------
(* The validated-service wrapper: one call of one emitted async method.       *)
(* The wrapped implementation and the response-builder belong to the caller:  *)
(* what they do is chosen freely at every invocation.                         *)

\* const returnType = getTypeByName(service, method.returnType?.typeName.value)
ReturnTypeOf(method) ==
    IF method.returnType = <<>> THEN <<>> ELSE getTypeByName(method.returnType[1])

\* sanitize(call, isAsync), evaluated on the value of call: the sanitizer of the
\* return type when the return type is a Type, else the value itself
SanitizeResult(method, value) ==
    IF ReturnTypeOf(method) # <<>>
    THEN SanitizeNamed(srev, gen, ReturnTypeOf(method)[1].name, value)
    ELSE Ret(value)

\* where the try block goes on when the errors are ignored
AfterValidationIgnoringErrors(errors) == "sanitizeParams"

\* if (validationErrors.length) { return <builder>(validationErrors, undefined) }
AfterValidation(errors) == IF Len(errors) > 0 THEN "invalid" ELSE "sanitizeParams"

NoPromise == [kind |-> "none"]
\* what the wrapped implementation does when invoked
ImplBehaviours ==
    {[kind |-> "throws"], [kind |-> "rejects"]}
    \cup {[kind |-> "resolves", val |-> v] :
            v \in {Obj([n |-> Num(1), zz |-> Num(9)]), Obj([c |-> Num(1), zz |-> Num(9)]), Undef}}
\* what the response-builder does when invoked
BuilderBehaviours ==
    {[kind |-> "throws"]}
    \cup {[kind |-> "returns", val |-> v] : v \in {Obj([n |-> Num(0), zz |-> Num(9)]), Undef}}

ParamsInputs ==
    {Undef, Null, Obj(<<>>),
     Obj([id |-> Str("a")]), Obj([id |-> Str(Rep(MaxStrLen)), zz |-> Num(9)]),
     Obj([id |-> Str("a"), opts |-> Null]),
     Obj([id |-> Str("a"), opts |-> Obj([x |-> Num(1), zz |-> Num(9)]), zz |-> Num(9)]),
     Obj([opts |-> Obj([zz |-> Num(9)])]),
     Obj([body |-> Obj([n |-> Num(1), zz |-> Num(9)])]), Obj([body |-> Obj(<<>>)])}

\* the state of a call that has not started
Fresh ==
    [errors |-> <<>>, passed |-> FALSE, impl |-> 0, builder |-> 0, arg |-> Undef,
     pending |-> NoPromise, implFailed |-> FALSE, sanitizerThrew |-> FALSE,
     builderFailed |-> FALSE, handed |-> <<>>, built |-> Undef,
     ret |-> Undef, stage |-> "none", out |-> Undef, args |-> <<>>]

InitW ==
    /\ pc = "start"
    /\ gen = "clauses" /\ srev = "probe"
    /\ subject \in {ServiceMethods[i] : i \in 1..Len(ServiceMethods)}
    /\ input \in IF Len(subject.parameters) > 0 THEN ParamsInputs ELSE {Undef}
    /\ parent = Undef
    /\ vres = NotRun /\ gres = NotRun /\ sres = NotRun /\ sres2 = NotRun
    /\ w = Fresh
    /\ build = Built

\* async m(params) { let validationErrors = []; try {
Enter ==
    /\ pc = "start"
    /\ pc' = IF Len(subject.parameters) > 0 THEN "validate" ELSE "invoke"
    /\ w' = [w EXCEPT !.passed = Len(subject.parameters) = 0]
    /\ UNCHANGED <<setup, vres, gres, sres, sres2>>

\* validationErrors = validate<Method>Params(params); if (validationErrors.length) ...
Validate ==
    /\ pc = "validate"
    /\ vres' = ParamsValidator(subject, input)
    /\ IF vres'.thrown
       THEN pc' = "catch" /\ w' = w
       ELSE /\ pc' = AfterValidation(vres'.val)
            /\ w' = [w EXCEPT !.errors = vres'.val, !.passed = vres'.val = <<>>]
    /\ UNCHANGED <<setup, gres, sres, sres2>>

\* where control goes when the return statement of a stage throws: out of the
\* try block into the catch block, out of the catch block out of the method
OnThrow(stage) == IF stage = "catch" THEN "rejected" ELSE "catch"

\* one invocation of the response-builder with (validationErrors, err); what it
\* returns goes to the sanitizer of the return type
Build(b, err, stage) ==
    LET called == [w EXCEPT !.builder = @ + 1, !.handed = <<w.errors, err>>]
    IN  IF b.kind = "throws"
        THEN /\ pc' = OnThrow(stage)
             /\ w' = [called EXCEPT !.builderFailed = TRUE]
        ELSE /\ pc' = "sanitize"
             /\ w' = [called EXCEPT !.built = b.val, !.ret = b.val, !.stage = stage]

\* return <builder>(validationErrors, undefined), inside the try block
BuildInvalid ==
    /\ pc = "invalid"
    /\ \E b \in BuilderBehaviours : Build(b, "undefined", "invalid")
    /\ UNCHANGED <<setup, vres, gres, sres, sres2>>

\* const sanitizedParams = sanitizers.sanitize<Method>Params(params)
SanitizeParamsStep ==
    /\ pc = "sanitizeParams"
    /\ sres' = SanitizeParams(srev, gen, subject, input)
    /\ IF sres'.thrown
       THEN pc' = "catch" /\ w' = [w EXCEPT !.sanitizerThrew = TRUE]
       ELSE pc' = "invoke" /\ w' = [w EXCEPT !.arg = sres'.val]
    /\ UNCHANGED <<setup, vres, gres, sres2>>

\* an argument list that hands the implementation the params of the caller
ImplArgumentsRaw(method, sanitizedParams, params) ==
    IF Len(method.parameters) > 0 THEN <<params>> ELSE <<>>

\* the arguments of this.service.<method>(${hasParams ? 'sanitizedParams' : ''})
ImplArguments(method, sanitizedParams, params) ==
    IF Len(method.parameters) > 0 THEN <<sanitizedParams>> ELSE <<>>

\* this.service.<method>(sanitizedParams): awaited when the return type is a
\* Type, returned as it is otherwise
Invoke ==
    /\ pc = "invoke"
    /\ \E i \in ImplBehaviours :
        LET called == [w EXCEPT !.impl = @ + 1, !.pending = i,
                                !.implFailed = i.kind # "resolves",
                                !.args = ImplArguments(subject, w.arg, input)]
        IN  /\ w' = IF i.kind = "resolves" /\ ReturnTypeOf(subject) = <<>>
                    THEN [called EXCEPT !.out = i.val] ELSE called
            /\ pc' = CASE i.kind = "throws" -> "catch"
                       [] ReturnTypeOf(subject) # <<>> -> "awaiting"
                       [] i.kind = "resolves" -> "resolved"
                       [] OTHER -> "rejected"
    /\ UNCHANGED <<setup, vres, gres, sres, sres2>>

\* await <promise>: the value goes to the sanitizer of the return type
Await ==
    /\ pc = "awaiting"
    /\ IF w.pending.kind = "rejects"
       THEN pc' = "catch" /\ w' = w
       ELSE pc' = "sanitize" /\ w' = [w EXCEPT !.ret = w.pending.val, !.stage = "impl"]
    /\ UNCHANGED <<setup, vres, gres, sres, sres2>>

\* return sanitize(<call>): sanitizers.sanitize<ReturnType>(<value of call>), or
\* the value itself when the return type is not a Type
SanitizeReturn ==
    /\ pc = "sanitize"
    /\ sres2' = SanitizeResult(subject, w.ret)
    /\ IF sres2'.thrown
       THEN /\ pc' = OnThrow(w.stage)
            /\ w' = IF w.stage = "impl" THEN [w EXCEPT !.sanitizerThrew = TRUE]
                                        ELSE [w EXCEPT !.builderFailed = TRUE]
       ELSE pc' = "resolved" /\ w' = [w EXCEPT !.out = sres2'.val]
    /\ UNCHANGED <<setup, vres, gres, sres>>

\* } catch (err) { return <builder>(validationErrors, err) }: what is thrown
\* here rejects the promise of the call
Catch ==
    /\ pc = "catch"
    /\ \E b \in BuilderBehaviours : Build(b, "err", "catch")
    /\ UNCHANGED <<setup, vres, gres, sres, sres2>>

NextW ==
    \/ Enter \/ Validate \/ BuildInvalid \/ SanitizeParamsStep
    \/ Invoke \/ Await \/ SanitizeReturn \/ Catch

SpecW == InitW /\ [][NextW]_vars

\* the promise of the call has settled
Settled == pc \in {"resolved", "rejected"}

-----------------------------------------------------------------------------
(* ConverterFactory at build time (date-utils-factory.ts, utils.ts).  The      *)
(* traversal is a generator: a stack of frames, one per traverse() in          *)
(* progress, resumed once per step of needsDateConversion's for-of loop.       *)

\* deepest nesting of traverse() the model follows
MaxDepth == 5

Prop(name, typeName, isArray) ==
    Member(name, typeName, typeName \in {"string", "date", "date-time"}, isArray, <<>>)

\* the services the converters are built for
DateServices ==
    { \* no cycle; the date is two properties away from alpha
      << [name |-> "alpha", properties |-> <<Prop("b", "beta", FALSE)>>],
         [name |-> "beta", properties |-> <<Prop("a", "string", FALSE), Prop("n", "node", TRUE)>>],
         [name |-> "node", properties |-> <<Prop("x", "date-time", FALSE)>>],
         [name |-> "leaf", properties |-> <<Prop("c", "string", FALSE), Prop("pick", "either", FALSE)>>] >>,
      \* no Type declares a date
      << [name |-> "leaf", properties |-> <<Prop("c", "string", FALSE)>>],
         [name |-> "alpha", properties |-> <<Prop("leaf", "leaf", FALSE), Prop("kids", "leaf", TRUE)>>] >>,
      \* a Type with a property of its own type, and a date of its own
      << [name |-> "node", properties |-> <<Prop("kids", "node", TRUE), Prop("x", "date", TRUE)>>] >>,
      \* a Type with a property of its own type, no date
      << [name |-> "node", properties |-> <<Prop("a", "string", FALSE), Prop("kids", "node", TRUE)>>],
         [name |-> "leaf", properties |-> <<Prop("x", "date", FALSE)>>] >>,
      \* Types that reference each other, and a date beyond them
      << [name |-> "alpha", properties |-> <<Prop("b", "beta", FALSE), Prop("m", "m", FALSE)>>],
         [name |-> "beta", properties |-> <<Prop("a", "alpha", FALSE)>>],
         [name |-> "m", properties |-> <<Prop("x", "date", FALSE)>>] >>,
      \* a Type with a date of its own and a property whose Type refers to itself
      << [name |-> "node", properties |-> <<Prop("x", "date", FALSE), Prop("m", "m", FALSE)>>],
         [name |-> "m", properties |-> <<Prop("m", "m", FALSE)>>] >>,
      \* no cycle; two ways from a to the Type with the dates
      << [name |-> "a", properties |-> <<Prop("b", "b", FALSE), Prop("c", "c", TRUE)>>],
         [name |-> "b", properties |-> <<Prop("n", "node", FALSE)>>],
         [name |-> "c", properties |-> <<Prop("id", "string", FALSE), Prop("n", "node", FALSE)>>],
         [name |-> "node", properties |-> <<Prop("x", "date", TRUE)>>] >>,
      \* no cycle, no date, four Types deep
      << [name |-> "z", properties |-> <<Prop("x", "x", FALSE)>>],
         [name |-> "x", properties |-> <<Prop("n", "n", TRUE)>>],
         [name |-> "n", properties |-> <<Prop("m", "m", FALSE), Prop("id", "string", FALSE)>>],
         [name |-> "m", properties |-> <<Prop("c", "string", FALSE)>>] >> }

\* getTypeByName(service, name): a sequence of zero or one Type
getTypeIn(service, name) == SelectSeq(service, LAMBDA t : t.name = name)

isDateProperty(property) == property.isPrimitive /\ property.typeName \in {"date", "date-time"}

\* the inner loop of needsDateConversion
HasDateProperty(type) == \E i \in 1..Len(type.properties) : isDateProperty(type.properties[i])

\* a generator that has not run yet
Traverse(name) == <<[t |-> name, i |-> 0, s |-> "start"]>>

\* One resumption of the outermost generator: it runs to the next yield, to the
\* end, or past the deepest nesting.  A frame is at "start" (before `yield type`),
\* at "loop" (at the head of the loop, property i next) or at "sub" (after
\* `yield subtype`, then inside `yield* traverse(service, subtype)`).
RECURSIVE Resume(_, _)
Resume(service, stack) ==
    IF Len(stack) = 0 THEN [stack |-> stack, out |-> "done"]
    ELSE
    LET top  == stack[Len(stack)]
        type == getTypeIn(service, top.t)[1]
        rest == SubSeq(stack, 1, Len(stack) - 1)
    IN  CASE top.s = "start" ->
                [stack |-> Append(rest, [top EXCEPT !.i = 1, !.s = "loop"]), out |-> "yield", y |-> top.t]
          [] top.s = "loop" /\ top.i > Len(type.properties) ->
                \* this generator is done: the caller's yield* ends and its loop goes on
                IF Len(rest) = 0 THEN [stack |-> rest, out |-> "done"]
                ELSE Resume(service, [rest EXCEPT ![Len(rest)] = [@ EXCEPT !.i = @ + 1, !.s = "loop"]])
          [] top.s = "loop" /\ top.i <= Len(type.properties) ->
                LET prop == type.properties[top.i]
                IN  IF prop.isPrimitive \/ Len(getTypeIn(service, prop.typeName)) = 0
                    THEN Resume(service, Append(rest, [top EXCEPT !.i = @ + 1]))
                    ELSE [stack |-> Append(rest, [top EXCEPT !.s = "sub"]), out |-> "yield", y |-> prop.typeName]
          [] top.s = "sub" ->
                LET subtype == type.properties[top.i].typeName
                IN  IF Len(stack) >= MaxDepth THEN [stack |-> stack, out |-> "overflow"]
                    ELSE [stack |-> Append(stack, [t |-> subtype, i |-> 1, s |-> "loop"]),
                          out |-> "yield", y |-> subtype]

\* the converter being emitted is the last of build.emitted
AddField(b, field) == [b EXCEPT !.emitted[Len(b.emitted)].fields = Append(@, field)]

\* buildFile's loop moves on to the next Type in name order
NextType(b) ==
    IF b.k < Len(b.service)
    THEN [b EXCEPT !.k = @ + 1, !.p = 0, !.stack = Traverse(SortByName(b.service)[b.k + 1].name)]
    ELSE [b EXCEPT !.phase = "done", !.stack = <<>>]

\* buildType's loop over the properties, from property p to its next call of
\* needsDateConversion
RECURSIVE ScanProperties(_, _)
ScanProperties(b, p) ==
    LET type == SortByName(b.service)[b.k]
    IN  IF p > Len(type.properties) THEN NextType(b)
        ELSE LET property == type.properties[p]
             IN  IF isDateProperty(property)
                 THEN ScanProperties(AddField(b, [name |-> property.name, by |-> "tryConvertDate",
                                                  map |-> property.isArray]), p + 1)
                 ELSE IF Len(getTypeIn(b.service, property.typeName)) = 0
                 THEN ScanProperties(b, p + 1)
                 ELSE [b EXCEPT !.p = p, !.stack = Traverse(property.typeName)]

\* what the caller of needsDateConversion does with the answer, up to its next
\* call of needsDateConversion: hasDateConverters (phase "some") and build, then
\* buildFile and buildType (phase "file")
Answered(b, answer) ==
    CASE b.phase = "some" /\ answer ->
            [b EXCEPT !.phase = "file", !.k = 1, !.p = 0,
                      !.stack = Traverse(SortByName(b.service)[1].name)]
      [] b.phase = "some" /\ ~answer ->
            IF b.k < Len(b.service)
            THEN [b EXCEPT !.k = @ + 1, !.stack = Traverse(b.service[b.k + 1].name)]
            ELSE [b EXCEPT !.phase = "done", !.stack = <<>>]
      [] b.phase = "file" /\ b.p = 0 /\ ~answer -> NextType(b)
      [] b.phase = "file" /\ b.p = 0 /\ answer ->
            ScanProperties([b EXCEPT !.emitted =
                                Append(@, [type |-> SortByName(b.service)[b.k].name, fields |-> <<>>])], 1)
      [] b.phase = "file" /\ b.p > 0 ->
            LET property == SortByName(b.service)[b.k].properties[b.p]
            IN  ScanProperties(IF answer
                               THEN AddField(b, [name |-> property.name, by |-> property.typeName,
                                                 map |-> property.isArray])
                               ELSE b,
                               b.p + 1)

\* new ConverterFactory(service).build(), at its first call of needsDateConversion
InitD ==
    /\ pc = "build"
    /\ gen = "clauses" /\ srev = "probe"
    /\ subject = [name |-> "date-utils"] /\ input = Undef /\ parent = Undef
    /\ vres = NotRun /\ gres = NotRun /\ sres = NotRun /\ sres2 = NotRun
    /\ w = Idle
    /\ \E service \in DateServices :
          build = [phase |-> "some", service |-> service, k |-> 1, p |-> 0,
                   stack |-> Traverse(service[1].name), emitted |-> <<>>]

Converting == pc = "build" /\ build.phase \in {"some", "file"}

\* traverse(...).next()
Pulled == Resume(build.service, build.stack)

Frame == <<pc, gen, srev, subject, input, parent, vres, gres, sres, sres2, w>>

\* the subtype yielded declares no date: the for-of loop goes on
NextSubtype ==
    /\ Converting /\ Pulled.out = "yield"
    /\ ~HasDateProperty(getTypeIn(build.service, Pulled.y)[1])
    /\ build' = [build EXCEPT !.stack = Pulled.stack]
    /\ UNCHANGED Frame

\* the subtype yielded declares a date: return true
FoundDate ==
    /\ Converting /\ Pulled.out = "yield"
    /\ HasDateProperty(getTypeIn(build.service, Pulled.y)[1])
    /\ build' = Answered(build, TRUE)
    /\ UNCHANGED Frame

\* the traversal has ended: return false
Exhausted ==
    /\ Converting /\ Pulled.out = "done"
    /\ build' = Answered(build, FALSE)
    /\ UNCHANGED Frame

\* the traversal nests without end: the engine runs out of stack
StackOverflow ==
    /\ Converting /\ Pulled.out = "overflow"
    /\ build' = [build EXCEPT !.phase = "overflow"]
    /\ UNCHANGED Frame

NextD == NextSubtype \/ FoundDate \/ Exhausted \/ StackOverflow

SpecD == InitD /\ [][NextD]_vars

-----------------------------------------------------------------------------
(* ValidatorMethodFactory at build time: every member-validator build touches  *)
(* the helpers its statements call; buildInternalHelperMethods then emits the  *)
(* ValidationError type and the helpers.                                       *)

\* member-validator builds before the helpers are emitted
MaxBuilds == 2

\* the helpers, in the order buildInternalHelperMethods emits them
Helpers ==
    <<"required", "array", "maxItems", "minItems", "uniqueItems", "using", "nativeType",
      "string", "number", "integer", "boolean", "date", "maxLength", "minLength", "pattern",
      "multipleOf", "gt", "gte", "lt", "lte">>

\* the helpers named in the arguments of ensure(...)
CallNames(calls) ==
    UNION {{calls[i].h} \cup (IF calls[i].h = "array"
                              THEN {calls[i].inner[j].h : j \in 1..Len(calls[i].inner)}
                              ELSE {}) : i \in 1..Len(calls)}

\* the touch...Validator() calls made while the statements of one validator are
\* emitted: one per helper named, and touchRequiredValidator for a required member
Touched(statements) ==
    UNION {CallNames(statements[i].ensure)
           \cup (IF statements[i].method = "required" THEN {"required"} ELSE {}) :
           i \in 1..Len(statements)}

\* the code an emitted helper puts into the errors it returns; touching the helper
\* adds the code to this.codes, except that touchArrayValidator and
\* touchPassthroughValidator add none and nativeType is never touched
HelperCode(h) ==
    CASE h = "required" -> {"REQUIRED"}
      [] h \in {"array", "nativeType", "string", "number", "integer", "boolean", "date"} -> {"TYPE"}
      [] h = "maxItems" -> {"ARRAY_MAX_ITEMS"}
      [] h = "minItems" -> {"ARRAY_MIN_ITEMS"}
      [] h = "uniqueItems" -> {"ARRAY_UNIQUE_ITEMS"}
      [] h = "maxLength" -> {"STRING_MAX_LENGTH"}
      [] h = "minLength" -> {"STRING_MIN_LENGTH"}
      [] h = "pattern" -> {"STRING_PATTERN"}
      [] h = "multipleOf" -> {"NUMBER_MULTIPLE_OF"}
      [] h = "gt" -> {"NUMBER_GT"}
      [] h = "gte" -> {"NUMBER_GTE"}
      [] h = "lt" -> {"NUMBER_LT"}
      [] h = "lte" -> {"NUMBER_LTE"}
      [] OTHER -> {}

TouchCodes(touched) == UNION {HelperCode(h) : h \in touched \ {"array", "using"}}

\* the condition under which build<Helper>Validator emits its helper
Needed(h, needs) ==
    CASE h = "nativeType" -> needs \cap {"string", "number", "boolean"} # {}
      [] h = "number" -> "string" \in needs
      [] OTHER -> h \in needs

\* buildInternalHelperMethods: the helpers emitted, in order
buildInternalHelperMethods(needs) == SelectSeq(Helpers, LAMBDA h : Needed(h, needs))

\* the member lists validators are built for: the properties of the Types and the
\* parameters of the Methods of the service, and every single member declaration
MemberLists ==
    {ServiceTypes[i].properties : i \in 1..Len(ServiceTypes)}
    \cup {ServiceMethods[i].parameters : i \in 1..Len(ServiceMethods)}
    \cup {<<m>> : m \in MemberDecls}

\* new ValidatorMethodFactory()
InitH ==
    /\ pc = "build"
    /\ gen = "helpers" /\ srev = "probe"
    /\ subject = [name |-> "validators"] /\ input = Undef /\ parent = Undef
    /\ vres = NotRun /\ gres = NotRun /\ sres = NotRun /\ sres2 = NotRun
    /\ w = Idle
    /\ build = [phase |-> "members", needs |-> {}, codes |-> {}, validators |-> <<>>,
                handed |-> <<>>, helpers |-> <<>>, union |-> {}]

\* new MemberValidatorFactory(state).build(members): the statements are emitted,
\* the helpers they call are touched, and the array handed in is left sorted
BuildMembers ==
    /\ pc = "build" /\ build.phase = "members" /\ Len(build.validators) < MaxBuilds
    /\ \E members \in MemberLists :
          LET statements == MemberValidatorBuild(members)
          IN  build' = [build EXCEPT !.validators = Append(@, statements),
                                     !.needs = @ \cup Touched(statements),
                                     !.codes = @ \cup TouchCodes(Touched(statements)),
                                     !.handed = SortByName(members)]
    /\ UNCHANGED Frame

\* state.buildInternalHelperMethods(), after all validators have been built
EmitHelpers ==
    /\ pc = "build" /\ build.phase = "members"
    /\ build' = [build EXCEPT !.phase = "emitted",
                              !.helpers = buildInternalHelperMethods(build.needs),
                              !.union = build.codes]
    /\ UNCHANGED Frame

NextH == BuildMembers \/ EmitHelpers

SpecH == InitH /\ [][NextH]_vars

-----------------------------------------------------------------------------
(* The identifiers generated for the entities of a service (name-factory.ts,   *)
(* SanitizerFactory)                                                           *)

\* names the entities of a service may carry
EntityNames == {"foo", "bar", "foo_bar", "fooBar", "foo_params", "bar-params"}

\* the entities of a service: Types, Enums, Unions, Methods
Entities == [category : {"Type", "Enum", "Union", "Method"}, name : EntityNames]

\* the identifiers of the functions emitted for one entity
GeneratedNames(e) ==
    CASE e.category = "Type" ->
            {buildTypeValidatorName(e.name), buildTypeGuardName(e.name), buildSanitizerName(e.name)}
      [] e.category = "Enum" -> {buildEnumValidatorName(e.name)}
      [] e.category = "Union" -> {buildSanitizerName(e.name)}
      [] e.category = "Method" ->
            {buildParamsValidatorName(e.name), buildParamsSanitizerName(e.name)}

\* two distinct entities of one service
InitN ==
    /\ pc = "build"
    /\ gen = "clauses" /\ srev = "probe"
    /\ subject = [name |-> "names"] /\ input = Undef /\ parent = Undef
    /\ vres = NotRun /\ gres = NotRun /\ sres = NotRun /\ sres2 = NotRun
    /\ w = Idle
    /\ \E a \in Entities, b \in Entities :
          /\ a # b
          /\ build = [phase |-> "naming", entities |-> <<a, b>>, names |-> <<{}, {}>>]

\* the factories emit the functions of both entities
GenerateNames ==
    /\ pc = "build" /\ build.phase = "naming"
    /\ build' = [build EXCEPT !.phase = "named",
                              !.names = <<GeneratedNames(build.entities[1]),
                                          GeneratedNames(build.entities[2])>>]
    /\ UNCHANGED Frame

NextN == GenerateNames

SpecN == InitN /\ [][NextN]_vars

-----------------------------------------------------------------------------
(* SanitizerFactory at build time: buildFile reads the IR it was constructed   *)
(* with; ir is that object as the build leaves it.                             *)

\* the member lists of a Union, as declared: two or three members, "ghost"
\* names no Type of the service
UnionMemberLists ==
    LET names == {"bare", "slim", "wide", "ghost"}
        lists == {<<a, b>> : a \in names, b \in names}
                 \cup {<<a, b, c>> : a \in {"bare"}, b \in names, c \in names}
        distinct(l) == \A i, j \in 1..Len(l) : l[i] = l[j] => i = j
    IN  {[i \in 1..Len(l) |-> [typeName |-> l[i]]] : l \in {x \in lists : distinct(x)}}

\* new SanitizerFactory(service), the service holding one or two Unions
InitI ==
    /\ pc = "build"
    /\ gen = "clauses" /\ srev = "probe"
    /\ subject = [name |-> "sanitizers"] /\ input = Undef /\ parent = Undef
    /\ vres = NotRun /\ gres = NotRun /\ sres = NotRun /\ sres2 = NotRun
    /\ w = Idle
    /\ \E first \in UnionMemberLists, more \in {<<>>} \cup {<<ms>> : ms \in UnionMemberLists} :
          LET unions == <<[name |-> "beta", members |-> first]>>
                        \o [i \in 1..Len(more) |-> [name |-> "alpha", members |-> more[i]]]
              service == [types |-> ServiceTypes, unions |-> unions, methods |-> ServiceMethods]
          IN  build = [phase |-> "sanitizers", service |-> service, ir |-> service, emitted |-> <<>>]

\* buildFile: the loops over sort(types) and over the methods read copies; the loop
\* over sort(unions) sorts each union.members where it is and emits one branch per
\* member in the sorted order
BuildSanitizers ==
    /\ pc = "build" /\ build.phase = "sanitizers"
    /\ LET unions == build.ir.unions
           sorted == [i \in 1..Len(unions) |-> [unions[i] EXCEPT !.members = SortMembers(@)]]
           byName == SortByName(sorted)
       IN  build' = [build EXCEPT
                        !.phase = "built",
                        !.ir.unions = sorted,
                        !.emitted = [i \in 1..Len(byName) |->
                                        [fn |-> buildSanitizerName(byName[i].name),
                                         branches |-> [j \in 1..Len(byName[i].members) |->
                                                          byName[i].members[j].typeName]]]]
    /\ UNCHANGED Frame

NextI == BuildSanitizers

SpecI == InitI /\ [][NextI]_vars

-----------------------------------------------------------------------------
(* buildValidatedServiceWrappers at build time: the handlers table of the      *)
(* constructor of one wrapper class and the handler each method body names     *)

\* the methods an interface may declare: those of the service, one that returns
\* a primitive and one that returns an Enum
InterfaceMethods ==
    {ServiceMethods[i] : i \in 1..Len(ServiceMethods)}
    \cup {Method("count_widgets", <<>>, <<"number">>), Method("get_color", <<>>, <<"color">>)}

\* the keys of handlersType: build<Type> for every Type a method returns, and
\* buildVoid when some method declares no return type
HandlerKeys(methods) ==
    {camel("build_" \o ReturnTypeOf(m)[1].name) : m \in {x \in methods : ReturnTypeOf(x) # <<>>}}
    \cup (IF \E m \in methods : m.returnType = <<>> THEN {"buildVoid"} ELSE {})

\* handlerName, without `this.handlers.`
HandlerName(method) ==
    IF ReturnTypeOf(method) # <<>>
    THEN camel("build_" \o ReturnTypeOf(method)[1].name)
    ELSE "buildVoid"

\* an interface of the service, its wrapper not yet emitted
InitT ==
    /\ pc = "build"
    /\ gen = "clauses" /\ srev = "probe"
    /\ subject = [name |-> "wrappers"] /\ input = Undef /\ parent = Undef
    /\ vres = NotRun /\ gres = NotRun /\ sres = NotRun /\ sres2 = NotRun
    /\ w = Idle
    /\ \E methods \in (SUBSET InterfaceMethods) \ {{}} :
          build = [phase |-> "interface", methods |-> methods, handlers |-> {}, used |-> {}]

\* the class of the interface is emitted: the constructor with its handlers table
\* and one method body per method
BuildWrapper ==
    /\ pc = "build" /\ build.phase = "interface"
    /\ build' = [build EXCEPT !.phase = "wrapped",
                              !.handlers = HandlerKeys(build.methods),
                              !.used = {HandlerName(m) : m \in build.methods}]
    /\ UNCHANGED Frame

NextT == BuildWrapper

SpecT == InitT /\ [][NextT]_vars

-----------------------------------------------------------------------------
(* Properties of the validators *)

\* s begins with p
StartsWith(s, p) == Len(s) >= Len(p) /\ SubSeq(s, 1, Len(p)) = p

\* the path the claims give to member m: its name, behind the parent path and a
\* dot when a parent path is supplied
ClaimedPath(m) == IF parent = Undef THEN m.name ELSE parent.s \o "." \o m.name

\* the path the running generation reports member m under
ReportedPath(m) == IF gen = "helpers" THEN ClaimedPath(m) ELSE camel(m.name)

\* the number of errors of a returned list with this code
CountCode(errors, code) ==
    Cardinality({j \in 1..Len(errors) : errors[j].code = code})
\* the number of errors of a returned list with this code and this path
CountCodeAt(errors, code, path) ==
    Cardinality({j \in 1..Len(errors) : errors[j].code = code /\ errors[j].path = path})
\* the number of errors of a returned list whose path begins with prefix
CountUnder(errors, prefix) ==
    Cardinality({j \in 1..Len(errors) : StartsWith(errors[j].path, prefix)})

\* the validator has been called on an object of a Type
ValidatedObject == pc # "start" /\ IsType(subject) /\ IsObj(input)

\* C4 (as stated, for the validators that take a parent path): for every required
\* member whose value is undefined in the input object, the validator returns an
\* error list that holds exactly one REQUIRED error for the member, whose path is
\* the member's name, behind parentPath and a dot when a parent path is supplied.
C4_RequiredReportedOnce ==
    (ValidatedObject /\ gen = "helpers") =>
        \A i \in 1..Len(subject.properties) :
            LET m == subject.properties[i]
            IN  (isRequired(m) /\ Get(input, buildMemberName(m)) = Undef) =>
                    /\ ~vres.thrown
                    /\ CountCodeAt(vres.val, "REQUIRED", ClaimedPath(m)) = 1

\* C7 (as stated): the enum validator returns a list of exactly one STRING_ENUM
\* error if and only if the value is a string that is not one of the enum's
\* values, and the empty list for every other value.
C7_EnumErrorIffStranger ==
    (pc = "done" /\ IsEnum(subject)) =>
        LET stranger == TypeOf(input) = "string"
                        /\ \A i \in 1..Len(subject.values) : subject.values[i] # input.s
        IN  /\ ~vres.thrown
            /\ stranger => (Len(vres.val) = 1 /\ vres.val[1].code = "STRING_ENUM")
            /\ ~stranger => vres.val = <<>>

\* C8: the type guard of a Type returns true if and only if the value is not
\* undefined and the Type's validator returns the empty list for it.
C8_GuardIffValid ==
    (pc = "done" /\ IsType(subject) /\ parent = Undef) =>
        ((gres = Ret(TRUE)) <=> (input # Undef /\ vres = Ret(<<>>)))

\* the validator of the Type without properties accepts undefined, its guard does not
C8_Witness ==
    /\ pc = "done" /\ IsType(subject) /\ parent = Undef
    /\ input = Undef /\ vres = Ret(<<>>) /\ gres = Ret(FALSE)

\* member m is a string that is not an array and rule is its string-max-length rule
HasMaxLength(m, rule) ==
    /\ m.isPrimitive /\ m.typeName = "string" /\ ~m.isArray
    /\ rule.id = "string-max-length"

\* C9: for a non-array string member with a string-max-length rule N, a string
\* longer than N yields exactly one STRING_MAX_LENGTH error for the member and a
\* string of length N yields none.
C9_MaxLength ==
    ValidatedObject =>
        \A i \in 1..Len(subject.properties) :
            LET m == subject.properties[i]
                value == Get(input, buildMemberName(m))
                hits == IF vres.thrown THEN -1
                        ELSE CountCodeAt(vres.val, "STRING_MAX_LENGTH", ReportedPath(m))
            IN  \A r \in 1..Len(m.rules) :
                    (HasMaxLength(m, m.rules[r]) /\ TypeOf(value) = "string") =>
                        /\ Len(value.s) > m.rules[r].length => hits = 1
                        /\ Len(value.s) = m.rules[r].length => hits = 0
                        /\ ~vres.thrown /\ CountCode(vres.val, "STRING_MAX_LENGTH") = hits

\* a string one longer than the rule allows has been reported once
C9_Witness ==
    /\ ValidatedObject /\ subject.name = "probe"
    /\ \E r \in 1..Len(subject.properties[1].rules) :
           /\ HasMaxLength(subject.properties[1], subject.properties[1].rules[r])
           /\ TypeOf(Get(input, "maxLen")) = "string"
           /\ Len(Get(input, "maxLen").s) = subject.properties[1].rules[r].length + 1
    /\ ~vres.thrown
    /\ CountCode(vres.val, "STRING_MAX_LENGTH") = 1

C11_AbsenceOnlyRequired ==
    (ValidatedObject /\ ~vres.thrown) =>
        \A i \in 1..Len(subject.properties) :
            LET m == subject.properties[i]
            IN  (isRequired(m) /\ m.isPrimitive /\ Get(input, buildMemberName(m)) = Undef) =>
                    /\ CountCodeAt(vres.val, "REQUIRED", ReportedPath(m)) = 1
                    /\ CountUnder(vres.val, ReportedPath(m)) = 1

\* part occurs in text
Mentions(text, part) ==
    \E i \in 1..Len(text) : SubSeq(text, i, i + Len(part) - 1) = part

\* validate<Union> has returned for a discriminated Union and a value it can read
ValidatedUnion == pc = "done" /\ IsUnion(subject) /\ ~GetThrows(input)

C20_WitnessOther ==
    ValidatedUnion /\ Get(input, "kind") = Str("c") /\ ~vres.thrown

\* every error of the outcome nested, which a member's validator returns for a
\* value on its own, is in the returned list with its path behind prefix and a dot
ReportedUnder(nested, prefix) ==
    nested.thrown \/
    \A j \in 1..Len(nested.val) :
        \E k \in 1..Len(vres.val) :
            /\ vres.val[k].code = nested.val[j].code
            /\ vres.val[k].path = prefix \o "." \o nested.val[j].path

\* C21 (as stated): an error on member m of a value reached through property p
\* has path 'p.m', through element i of array property p it has path 'p[i].m',
\* and with a parent path P every reported path begins with 'P.'.
C21_PathsCompose ==
    (ValidatedObject /\ ~vres.thrown) =>
        /\ \A i \in 1..Len(subject.properties) :
               LET p == subject.properties[i]
                   v == Get(input, buildMemberName(p))
                   types == getTypeByName(p.typeName)
               IN  (~p.isPrimitive /\ Len(types) > 0) =>
                       /\ (~p.isArray /\ IsObj(v)) =>
                              ReportedUnder(ValidateType(gen, types[1], v, Undef), ClaimedPath(p))
                       /\ (p.isArray /\ IsArr(v)) =>
                              \A e \in 1..Len(v.e) :
                                  IsObj(v.e[e]) =>
                                      ReportedUnder(ValidateType(gen, types[1], v.e[e], Undef),
                                                    ClaimedPath(p) \o "[" \o ToStr(e - 1) \o "]")
        /\ parent # Undef =>
               \A k \in 1..Len(vres.val) : StartsWith(vres.val[k].path, parent.s \o ".")

\* the errors of member m alone: the outcome of the validator of a Type that
\* declares nothing but m
MemberErrors(m) ==
    ValidateType(gen, [name |-> subject.name, properties |-> <<m>>], input, parent)

\* C22 (as stated): the list a validator returns is the concatenation, over its
\* members in ascending order of member name whatever their declaration order,
\* of the errors of each member; no member keeps another from being checked.
C22_AllMembersInNameOrder ==
    ValidatedObject =>
        LET sorted == SortByName(subject.properties)
            each == [i \in 1..Len(sorted) |-> MemberErrors(sorted[i])]
        IN  /\ ~vres.thrown
            /\ \A i \in 1..Len(sorted) : ~each[i].thrown
            /\ vres.val = Flatten([i \in 1..Len(sorted) |-> each[i].val])

\* the shape a value rule speaks of
ShapeOf(rule) ==
    IF rule.id \in {"string-enum", "string-max-length", "string-min-length", "string-pattern"}
    THEN "string"
    ELSE IF rule.id \in {"array-max-items", "array-min-items", "array-unique-items"}
    THEN "array"
    ELSE "number"

\* v is of the shape the rule speaks of
OfShape(rule, v) ==
    IF ShapeOf(rule) = "array" THEN IsArr(v)
    ELSE TypeOf(v) = ShapeOf(rule) /\ ~IsNaN(v)

\* what it means for a value of the rule's shape to violate the rule
Violates(rule, v) ==
    CASE rule.id = "string-enum" -> \A i \in 1..Len(rule.values) : rule.values[i] # v.s
      [] rule.id = "string-max-length" -> Len(v.s) > rule.length
      [] rule.id = "string-min-length" -> Len(v.s) < rule.length
      [] rule.id = "string-pattern" -> ~RegexTest(rule.pattern, v.s)
      [] rule.id = "number-multiple-of" -> NotMultiple(v, rule.value)
      [] rule.id = "number-gt" -> NumLe(v, rule.value)
      [] rule.id = "number-gte" -> NumLt(v, rule.value)
      [] rule.id = "number-lt" -> NumGe(v, rule.value)
      [] rule.id = "number-lte" -> NumGt(v, rule.value)
      [] rule.id = "array-max-items" -> Len(v.e) > rule.max
      [] rule.id = "array-min-items" -> Len(v.e) < rule.min
      [] rule.id = "array-unique-items" ->
            \E i, j \in 1..Len(v.e) : i < j /\ SameValueZero(v.e[i], v.e[j])

\* C24 (as stated): for an array member with a string or number rule, an error
\* with the rule's code is reported for an element, under the member's path
\* followed by [index], if and only if the element violates the rule; an array
\* whose elements all satisfy the rule yields no error with the rule's code.
C24_RulePerElement ==
    ValidatedObject =>
        \A i \in 1..Len(subject.properties) :
            LET m == subject.properties[i]
                value == Get(input, buildMemberName(m))
            IN  \A r \in 1..Len(m.rules) :
                    LET rule == m.rules[r]
                        code == constant(rule.id)
                        bad == {e \in 1..Len(value.e) :
                                    OfShape(rule, value.e[e]) /\ Violates(rule, value.e[e])}
                    IN  (/\ m.isPrimitive /\ m.isArray /\ IsArr(value)
                         /\ rule.id # "required" /\ ShapeOf(rule) # "array"
                         /\ \A e \in 1..Len(value.e) : OfShape(rule, value.e[e])) =>
                            /\ ~vres.thrown
                            /\ \A e \in 1..Len(value.e) :
                                   (e \in bad) <=>
                                       CountCodeAt(vres.val, code,
                                                   ClaimedPath(m) \o "[" \o ToStr(e - 1) \o "]") = 1
                            /\ CountCode(vres.val, code) = Cardinality(bad)

\* a guard is emitted for the rule: the helper emitter has none for string-enum
HasGuard(rule) == gen = "clauses" \/ ValueRuleCalls(rule) \o ArrayRuleCalls(rule) # <<>>

\* C26 (as stated): for a value of the rule's own shape the emitted guard reports
\* the rule's error code if and only if the value violates the rule (string-
\* pattern: the string does not match; string-min-length N: length < N; array-
\* unique-items: an element is repeated; number-gt N: value <= N; and so on).
C26_GuardMeansRule ==
    ValidatedObject =>
        \A i \in 1..Len(subject.properties) :
            LET m == subject.properties[i]
                value == Get(input, buildMemberName(m))
                reported(code) == ~vres.thrown /\ CountCode(vres.val, code) > 0
            IN  \A r \in 1..Len(m.rules) :
                    LET rule == m.rules[r]
                    IN  (/\ m.isPrimitive /\ rule.id # "required" /\ HasGuard(rule)
                         /\ m.isArray = (ShapeOf(rule) = "array")
                         /\ OfShape(rule, value)) =>
                            (reported(constant(rule.id)) <=> Violates(rule, value))

\* C30 (as stated): the type guard of a Type with at least one property returns
\* a boolean for every input value, null and primitive values included, and
\* never throws.
C30_GuardTotal ==
    (pc = "done" /\ IsType(subject) /\ Len(subject.properties) > 0) =>
        /\ ~gres.thrown
        /\ gres.val \in BOOLEAN

-----------------------------------------------------------------------------
(* Properties of the sanitizers *)

\* the Types a value of that name is made of: the Type itself, or the member
\* Types of the Union
TypesOf(name) ==
    IF getTypeByName(name) # <<>> THEN {getTypeByName(name)[1]}
    ELSE {getTypeByName(getUnionByName(name)[1].members[i].typeName)[1] :
            i \in 1..Len(getUnionByName(name)[1].members)}

RECURSIVE Conforms(_, _)
\* value is an object, each of its keys is a property declared on one of the
\* types and is not undefined, and the same holds inside the properties of a Type
\* or a Union (inside each element, for an array)
Conforms(types, value) ==
    /\ IsObj(value)
    /\ \A key \in DOMAIN value.o :
        /\ value.o[key] # Undef
        /\ \E type \in types : \E i \in 1..Len(type.properties) :
            LET m == type.properties[i]
                nested == ~m.isPrimitive /\ (getTypeByName(m.typeName) # <<>>
                                             \/ getUnionByName(m.typeName) # <<>>)
            IN  /\ buildMemberName(m) = key
                /\ nested =>
                     IF m.isArray
                     THEN /\ IsArr(value.o[key])
                          /\ \A j \in 1..Len(value.o[key].e) :
                                 Conforms(TypesOf(m.typeName), value.o[key].e[j])
                     ELSE Conforms(TypesOf(m.typeName), value.o[key])

\* the sanitizer of a Type has returned
SanitizedType == pc # "start" /\ IsType(subject) /\ ~sres.thrown

\* C5: the result of the sanitizer of a Type holds only keys declared on the
\* Type, none with the value undefined, and so do, recursively, the values of its
\* properties of a Type or a Union (each element, for an array).
C5_OnlyDeclaredFields == SanitizedType => Conforms({subject}, sres.val)

\* undeclared and undefined fields at three levels of the input are gone
C5_Witness ==
    /\ SanitizedType /\ subject.name = "box"
    /\ "zz" \in DOMAIN input.o /\ "zz" \notin DOMAIN sres.val.o
    /\ sres.val.o["leaves"] = Arr(<<Obj([n |-> Num(1)]), Obj(<<>>)>>)
    /\ "zz" \notin DOMAIN sres.val.o["pick"].o

\* C18: for a property declared as an array of a custom Type, required or
\* optional, whose value is an array, the Type's sanitizer returns an array of the
\* same length whose element j is the nested Type's sanitizer applied to element j
\* of the input, and each element holds only fields declared on the nested Type.
C18_ArrayElementsSanitized ==
    SanitizedType =>
        \A i \in 1..Len(subject.properties) :
            LET m == subject.properties[i]
                value == Get(input, buildMemberName(m))
                out == Get(sres.val, buildMemberName(m))
                declared == {buildMemberName(getTypeByName(m.typeName)[1].properties[p]) :
                                p \in 1..Len(getTypeByName(m.typeName)[1].properties)}
            IN  (~m.isPrimitive /\ m.isArray /\ getTypeByName(m.typeName) # <<>> /\ IsArr(value)) =>
                    /\ IsArr(out) /\ Len(out.e) = Len(value.e)
                    /\ \A j \in 1..Len(value.e) :
                          /\ SanitizeNamed(srev, gen, m.typeName, value.e[j]) = Ret(out.e[j])
                          /\ IsObj(out.e[j]) /\ DOMAIN out.e[j].o \subseteq declared

\* an optional array of trees, present: the undeclared field of its element is gone
C18_Witness ==
    /\ SanitizedType /\ subject.name = "tree"
    /\ IsObj(input) /\ "kids" \in DOMAIN input.o /\ IsArr(input.o["kids"])
    /\ Len(input.o["kids"].e) = 1 /\ "zz" \in DOMAIN input.o["kids"].e[1].o
    /\ sres.val.o["kids"] = Arr(<<Obj([leaf |-> Obj([a |-> Str("a")])])>>)

\* C19 (as stated): the params sanitizer of a Method passes every parameter whose
\* declared type is a custom Type or a Union through that type's sanitizer (each
\* element, for an array): no undeclared field of the value of such a parameter
\* reaches the result.
C19_ParamsSanitizedLikeProperties ==
    (pc # "start" /\ IsMethod(subject) /\ ~sres.thrown) =>
        \A i \in 1..Len(subject.parameters) :
            LET m == subject.parameters[i]
                out == Get(sres.val, buildMemberName(m))
                items == IF m.isArray /\ IsArr(out) THEN out.e ELSE <<out>>
            IN  (~m.isPrimitive /\ (getTypeByName(m.typeName) # <<>> \/ getUnionByName(m.typeName) # <<>>)) =>
                    \A j \in 1..Len(items) :
                        IsObj(items[j]) => Conforms(TypesOf(m.typeName), items[j])

\* C6 (as stated): wherever the sanitizer of a Type returns, applying it to
\* its own result returns a value equal to that result.
C6_Idempotent ==
    (pc = "done" /\ IsType(subject)) => (~sres2.thrown /\ sres2.val = sres.val)

\* the number of properties the member Type of a Union declares
PropertyCount(member) == Len(getTypeByName(member.typeName)[1].properties)

\* the orders of the members of the Union in which no member comes before one
\* that declares more properties
ProbeOrders(union) ==
    LET n == Len(union.members)
    IN  {order \in [1..n -> 1..n] :
            /\ \A i, j \in 1..n : i # j => order[i] # order[j]
            /\ \A i \in 1..(n - 1) :
                   PropertyCount(union.members[order[i]])
                       >= PropertyCount(union.members[order[i + 1]])}

\* the probing union sanitizer has been called
SanitizedUnion == pc # "start" /\ IsUnion(subject) /\ srev = "probe"

\* C27: the union sanitizer probes the type guards of the member Types in order
\* of descending declared property count and returns the result of the sanitizer
\* of the first member whose guard accepts the value; when no guard before the
\* last member's accepts it, it returns the result of the last member's
\* sanitizer, whatever that member's guard would say.
C27_ProbeMostPropertiesFirst ==
    SanitizedUnion =>
        \E order \in ProbeOrders(subject) :
            LET n == Len(order)
                member(i) == subject.members[order[i]]
                guard(i) == TypeGuard(gen, getTypeByName(member(i).typeName)[1], input)
                settles(i) == i = n \/ guard(i) # Ret(FALSE)
                first == CHOOSE i \in 1..n : settles(i) /\ \A j \in 1..(i - 1) : ~settles(j)
            IN  IF first < n /\ guard(first).thrown
                THEN sres.thrown
                ELSE sres = SanitizeType(srev, gen, getTypeByName(member(first).typeName)[1], input)

\* the member declared last, which declares more properties, was probed first and
\* accepted the value, which the member declared first would have accepted too
C27_Witness ==
    /\ SanitizedUnion /\ subject.name = "either"
    /\ TypeGuard(gen, getTypeByName("wide")[1], input) = Ret(TRUE)
    /\ TypeGuard(gen, getTypeByName("slim")[1], input) = Ret(TRUE)
    /\ sres = SanitizeType(srev, gen, getTypeByName("wide")[1], input)
    /\ sres # SanitizeType(srev, gen, getTypeByName("slim")[1], input)

\* no guard accepts the value and the sanitizer of the last member has answered
C27_WitnessLast ==
    /\ SanitizedUnion /\ subject.name = "either"
    /\ TypeGuard(gen, getTypeByName("wide")[1], input) = Ret(FALSE)
    /\ TypeGuard(gen, getTypeByName("slim")[1], input) = Ret(FALSE)
    /\ ~sres.thrown

-----------------------------------------------------------------------------
(* Properties of the validated-service wrapper *)

\* the method of the call has parameters
HasParams == Len(subject.parameters) > 0
\* the method of the call declares a return type
HasReturnType == subject.returnType # <<>>

\* C1: for a wrapped method with parameters, once the params validator has
\* returned a non-empty error list the wrapped implementation is not invoked at
\* any point of the call, also when the response-builder or the sanitizer of its
\* output throws.
C1_InvalidNeverInvokes ==
    (HasParams /\ Len(w.errors) > 0) => w.impl = 0

\* a call with invalid params whose first response was lost (the builder threw,
\* or the sanitizer of its output did) has resolved from the catch block
C1_Witness ==
    /\ pc = "resolved" /\ HasParams /\ Len(w.errors) > 0
    /\ w.builderFailed /\ w.builder = 2 /\ w.impl = 0

\* outcome r is not the return of a value other than v
ReturnsOnly(r, v) == r.thrown \/ r.val = v

\* C2 (as stated): for a wrapped method with a return type, a call whose params
\* pass validation invokes the implementation exactly once, and when that
\* invocation resolves the wrapper returns the sanitizer of the return type
\* applied to the resolved value (wherever that sanitizer returns).
C2_ValidInvokesOnceAndSanitizes ==
    (Settled /\ HasReturnType /\ w.passed) =>
        /\ w.impl = 1
        /\ w.pending.kind = "resolves" =>
               ReturnsOnly(SanitizeNamed(srev, gen, subject.returnType[1], w.pending.val),
                           w.out)

\* C3 (as stated, for a response-builder that returns): every call resolves; when
\* the implementation throws or rejects, or a sanitizer throws after validation
\* has passed, the response-builder is invoked once with the validation errors
\* and the error, and the call resolves with what the builder returned (through
\* the sanitizer of the return type, if the method has one).
C3_FailuresGoToBuilder ==
    (Settled /\ ~w.builderFailed) =>
        /\ pc = "resolved"
        /\ (w.implFailed \/ w.sanitizerThrew) =>
               /\ w.builder = 1
               /\ w.handed = <<w.errors, "err">>
               /\ SanitizeResult(subject, w.built) = Ret(w.out)

\* C23: within one wrapped call the params validator completes first; the params
\* sanitizer runs only after it has returned no errors; the implementation is
\* invoked only after that, with the sanitized params and never the caller's
\* own; the result sanitizer runs on the implementation's result only after
\* that result has resolved.
C23_StepsInOrder ==
    /\ (HasParams /\ pc \notin {"start", "validate"}) => vres # NotRun
    /\ sres # NotRun => vres = Ret(<<>>)
    /\ (HasParams /\ w.impl > 0) =>
           /\ vres = Ret(<<>>)
           /\ sres # NotRun /\ ~sres.thrown
           /\ sres = SanitizeParams(srev, gen, subject, input)
           /\ w.args = <<sres.val>>
    /\ (sres2 # NotRun /\ w.stage = "impl") =>
           /\ w.impl = 1 /\ w.pending.kind = "resolves"
           /\ sres2 = SanitizeResult(subject, w.pending.val)

\* the implementation was handed params that differ from the caller's, and its
\* resolved result has been through the sanitizer of the return type
C23_Witness ==
    /\ pc = "resolved" /\ HasParams /\ w.impl = 1
    /\ w.args # <<input>>
    /\ w.stage = "impl" /\ sres2 # NotRun /\ ~sres2.thrown
    /\ w.out # w.pending.val

\* C29 (as stated): in one wrapped call the response-builder is invoked at most
\* once, also when the builder itself or the sanitizer applied to its output
\* throws: not at all when the implementation and the sanitizers succeed, once
\* when validation fails or an exception is caught.
C29_BuilderAtMostOnce ==
    /\ w.builder <= 1
    /\ (Settled /\ w.passed /\ ~w.implFailed /\ ~w.sanitizerThrew) => w.builder = 0
    /\ (Settled /\ Len(w.errors) > 0) => w.builder = 1

-----------------------------------------------------------------------------
(* Properties of the helper emission *)

HelpersEmitted == pc = "build" /\ build.phase = "emitted"

\* the helpers the emitted text refers to: those the statements of the emitted
\* validators call, required through validator.required(...), and nativeType
\* through the emitted string, number and boolean helpers
ReferencedHelpers ==
    UNION {Touched(build.validators[i]) : i \in 1..Len(build.validators)}
    \cup (IF \E j \in 1..Len(build.helpers) : build.helpers[j] \in {"string", "number", "boolean"}
          THEN {"nativeType"} ELSE {})

\* C14 (as stated): after any sequence of member-validator builds, the helper
\* emission emits each shared helper exactly once if an emitted validator or an
\* emitted helper refers to it, and does not emit it if none does.
C14_HelperEmittedIffReferenced ==
    HelpersEmitted =>
        \A i \in 1..Len(Helpers) :
            Cardinality({j \in 1..Len(build.helpers) : build.helpers[j] = Helpers[i]})
                = IF Helpers[i] \in ReferencedHelpers THEN 1 ELSE 0

\* every validator an emitted validator delegates to has been built as well
AllValidatorsBuilt ==
    \A i \in 1..Len(build.validators) :
        \A j \in 1..Len(build.validators[i]) :
            LET calls == build.validators[i][j].ensure
                direct == {calls[c] : c \in 1..Len(calls)}
                nested == UNION {{x.inner[c] : c \in 1..Len(x.inner)} : x \in {y \in direct : y.h = "array"}}
            IN  \A call \in {x \in direct \cup nested : x.h = "using"} :
                    \E t \in 1..Len(ServiceTypes) :
                        /\ buildTypeValidatorName(ServiceTypes[t].name) = call.fn
                        /\ \E k \in 1..Len(build.validators) :
                              build.validators[k] = MemberValidatorBuild(ServiceTypes[t].properties)

\* C15 (as stated): when the ValidationError type is emitted after all validators
\* have been built, its code union holds every code that an emitted shared helper
\* can put into an error at run time.
C15_CodeUnionComplete ==
    (HelpersEmitted /\ AllValidatorsBuilt) =>
        \A j \in 1..Len(build.helpers) : HelperCode(build.helpers[j]) \subseteq build.union

\* the helper that checks a rule, were all twelve kinds checked by a helper
RuleHelper(rule) ==
    CASE rule.id = "string-enum" -> "stringEnum"
      [] rule.id = "string-max-length" -> "maxLength"
      [] rule.id = "string-min-length" -> "minLength"
      [] rule.id = "string-pattern" -> "pattern"
      [] rule.id = "number-multiple-of" -> "multipleOf"
      [] rule.id = "number-gt" -> "gt"
      [] rule.id = "number-gte" -> "gte"
      [] rule.id = "number-lt" -> "lt"
      [] rule.id = "number-lte" -> "lte"
      [] rule.id = "array-max-items" -> "maxItems"
      [] rule.id = "array-min-items" -> "minItems"
      [] rule.id = "array-unique-items" -> "uniqueItems"

\* C25 (as stated): for every member and every rule declared on it, of any of
\* the twelve kinds, the statement emitted for the member holds a check for the
\* rule.
C25_EveryRuleChecked ==
    (pc = "build" /\ build.phase \in {"members", "emitted"} /\ Len(build.validators) > 0) =>
        LET statements == build.validators[Len(build.validators)]
        IN  \A i \in 1..Len(build.handed) :
                \A r \in 1..Len(build.handed[i].rules) :
                    LET rule == build.handed[i].rules[r]
                    IN  rule.id # "required" =>
                            RuleHelper(rule) \in CallNames(statements[i].ensure)

-----------------------------------------------------------------------------
(* Properties of the generated identifiers *)

\* C16 (as stated): for two distinct entities of one service (names unique within
\* each category), no generated identifier of one equals a generated identifier of
\* the other.
C16_GeneratedNamesDistinct ==
    (pc = "build" /\ build.phase = "named") => build.names[1] \cap build.names[2] = {}

-----------------------------------------------------------------------------
(* Properties of the build with respect to the IR *)

\* C17 (as stated): generation never mutates the IR: after the sanitizers of a
\* service have been built, every Type's property list, every Method's parameter
\* list and every Union's member list are, in order and content, as before.
C17_BuildLeavesIR ==
    (pc = "build" /\ build.phase = "built") => build.ir = build.service

-----------------------------------------------------------------------------
(* Properties of the handlers table *)

\* C28 (as stated): every response-builder a method body of the wrapper names is
\* a key of the handlers table of the wrapper's constructor, also for methods
\* that return a primitive, an Enum or a Union.
C28_HandlersDeclared ==
    (pc = "build" /\ build.phase = "wrapped") => build.used \subseteq build.handlers

-----------------------------------------------------------------------------
(* Properties of the date converters *)

\* C12 (as stated): the needs-date-conversion computation terminates for every
\* service, cyclic ones included, visiting each reachable Type a bounded number of
\* times: no traversal of a Type is ever nested inside a traversal of the same
\* Type (the traversal of a Type depends on the Type alone, so a traversal nested
\* in itself nests again, without end).
C12_TraversalTerminates ==
    pc = "build" =>
        /\ build.phase # "overflow"
        /\ \A i, j \in 1..Len(build.stack) : build.stack[i].t = build.stack[j].t => i = j

\* the names of the Types of a service
TypeNames(service) == {service[i].name : i \in 1..Len(service)}

\* the Types reachable from the Types named, following properties of custom type
RECURSIVE Reachable(_, _)
Reachable(service, names) ==
    LET more == {n \in TypeNames(service) :
                    \E i \in 1..Len(service) :
                        /\ service[i].name \in names
                        /\ \E p \in 1..Len(service[i].properties) :
                              /\ ~service[i].properties[p].isPrimitive
                              /\ service[i].properties[p].typeName = n}
    IN  IF more \subseteq names THEN names ELSE Reachable(service, names \cup more)

\* the Types that declare a date or have a Type that does within reach
DateBearing(service) ==
    {n \in TypeNames(service) :
        \E i \in 1..Len(service) :
            service[i].name \in Reachable(service, {n}) /\ HasDateProperty(service[i])}

\* C13 (as stated): when the build of the converters has ended, a converter
\* function has been emitted for a Type if and only if the Type, or a Type reachable
\* from it through properties of custom type, declares a date or date-time property.
C13_ConverterIffDateReachable ==
    (pc = "build" /\ build.phase \in {"done", "overflow"}) =>
        {build.emitted[i].type : i \in 1..Len(build.emitted)} = DateBearing(build.service)

=============================================================================
